---- MODULE Spec2Model ----
(***************************************************************************)
(* Model of the tiktokrelay service (src/server.js): the /byline proxy     *)
(* with its byline extraction pipeline, and the /tiktok-sse session with   *)
(* its reconnect scheduling.                                               *)
(*                                                                         *)
(* Text is a sequence of one-character strings (one element per UTF-16     *)
(* code unit).  Characters outside ASCII are written by name:              *)
(* "<ellipsis>" is U+2026, "<middot>" U+00B7, "<endash>" U+2013,           *)
(* "<bullet>" U+2022.                                                      *)
(***************************************************************************)
EXTENDS Integers, Sequences, FiniteSets, TLC

(***************************************************************************)
(* Characters and the character classes of the regular expressions.        *)
(***************************************************************************)
UpperSeq == <<"A","B","C","D","E","F","G","H","I","J","K","L","M","N","O","P","Q","R","S","T","U","V","W","X","Y","Z">>
LowerSeq == <<"a","b","c","d","e","f","g","h","i","j","k","l","m","n","o","p","q","r","s","t","u","v","w","x","y","z">>
Uppers == {UpperSeq[i] : i \in 1..26}
Lowers == {LowerSeq[i] : i \in 1..26}
Digits == {"0","1","2","3","4","5","6","7","8","9"}
Letters == Uppers \cup Lowers
Alnum == Letters \cup Digits
\* \w
WordCh == Alnum \cup {"_"}
\* \s
Ws == {" ", "\t", "\n", "\r"}
\* [^\S\r\n]
HorizWs == {" ", "\t"}

\* String.prototype.toLowerCase on one code unit (ASCII letters)
LowerMap == [c \in Uppers |-> LowerSeq[CHOOSE i \in 1..26 : UpperSeq[i] = c]]
LowerC(c) == IF c \in Uppers THEN LowerMap[c] ELSE c
toLowerCase(s) == [i \in 1..Len(s) |-> LowerC(s[i])]

MinOf(S) == CHOOSE x \in S : \A y \in S : x <= y
MaxOf(S) == 0 - MinOf({0 - x : x \in S})

\* the character at position i (1-based), "" outside the string
At(s, i) == IF i >= 1 /\ i <= Len(s) THEN s[i] ELSE ""

\* String.prototype.slice(a, b) with 0-based a <= b, both clamped to the length
slice(s, a, b) == SubSeq(s, (IF a > Len(s) THEN Len(s) ELSE a) + 1, IF b > Len(s) THEN Len(s) ELSE b)

\* String.prototype.trim
trim(s) ==
  LET nz == {i \in 1..Len(s) : s[i] \notin Ws}
  IN IF nz = {} THEN <<>> ELSE SubSeq(s, MinOf(nz), MaxOf(nz))

\* t occurs in s at position i (1-based), case-sensitively
StartsAt(s, i, t) ==
  /\ i >= 1
  /\ i + Len(t) - 1 <= Len(s)
  /\ \A k \in 1..Len(t) : s[i + k - 1] = t[k]

\* t occurs in s at position i, comparing case-insensitively (the regex i flag)
StartsAtCI(s, i, t) ==
  /\ i >= 1
  /\ i + Len(t) - 1 <= Len(s)
  /\ \A k \in 1..Len(t) : LowerC(s[i + k - 1]) = LowerC(t[k])

\* the last position of the run of characters of class C that starts at i
\* (i - 1 when s[i] is not in C): a greedy C* from position i
RunEnd(s, i, C) ==
  IF i > Len(s) THEN i - 1
  ELSE (CHOOSE k \in i..(Len(s) + 1) :
          /\ k = Len(s) + 1 \/ s[k] \notin C
          /\ \A j \in i..(k - 1) : s[j] \in C) - 1

\* the last position of the run of characters outside class C that starts at i
RunEndNot(s, i, C) ==
  IF i > Len(s) THEN i - 1
  ELSE (CHOOSE k \in i..(Len(s) + 1) :
          /\ k = Len(s) + 1 \/ s[k] \in C
          /\ \A j \in i..(k - 1) : s[j] \notin C) - 1

\* \b at position i: between s[i-1] and s[i]
WordBoundary(s, i) == (At(s, i - 1) \in WordCh) # (At(s, i) \in WordCh)

\* String.prototype.indexOf as a 1-based position, 0 when t does not occur
indexOf(s, t) ==
  LET hits == {i \in 1..(Len(s) - Len(t) + 1) : StartsAt(s, i, t)}
  IN IF hits = {} THEN 0 ELSE MinOf(hits)

RECURSIVE Flat(_)
\* Array.prototype.join('') of a sequence of strings
Flat(ss) == IF ss = <<>> THEN <<>> ELSE Head(ss) \o Flat(Tail(ss))

RECURSIVE JoinWith(_, _)
\* Array.prototype.join(sep)
JoinWith(ss, sep) ==
  IF ss = <<>> THEN <<>>
  ELSE IF Len(ss) = 1 THEN ss[1]
  ELSE ss[1] \o sep \o JoinWith(Tail(ss), sep)

RECURSIVE SubstRange(_, _, _, _, _)
\* the left-to-right scan of replace over the positions lo..hi: the output
\* for them and the position where the scan resumes (a match may run past hi)
SubstRange(s, m, rep, lo, hi) ==
  IF lo > hi THEN <<<<>>, lo>>
  ELSE IF lo = hi
       THEN (IF m[lo] > 0 THEN <<rep, lo + m[lo]>> ELSE <<<<s[lo]>>, lo + 1>>)
  ELSE LET mid == (lo + hi) \div 2
           L == SubstRange(s, m, rep, lo, mid)
           R == SubstRange(s, m, rep, IF L[2] > mid THEN L[2] ELSE mid + 1, hi)
       IN <<L[1] \o R[1], R[2]>>

\* String.prototype.replace(re, rep) with the g flag: m[i] is the length of
\* the match of re that starts at position i (0 when there is none); the scan
\* goes left to right and resumes after each match.
Subst(s, m, rep, i) == SubstRange(s, m, rep, i, Len(s))[1]

\* replace(/\s+/g, ' ')
CollapseWs(s) ==
  LET keep == SelectSeq([i \in 1..Len(s) |-> <<s[i], At(s, i - 1)>>],
                        LAMBDA p : p[1] \notin Ws \/ p[2] \notin Ws)
  IN [i \in 1..Len(keep) |-> IF keep[i][1] \in Ws THEN " " ELSE keep[i][1]]

\* String.prototype.split on a run of the separator class: the pieces between
\* the separator characters, each separator character splitting once
RECURSIVE SplitOn(_, _)
SplitOn(s, c) ==
  LET hits == {i \in 1..Len(s) : s[i] = c}
  IN IF hits = {} THEN <<s>>
     ELSE LET i == MinOf(hits)
          IN <<SubSeq(s, 1, i - 1)>> \o SplitOn(SubSeq(s, i + 1, Len(s)), c)

Mask == <<"*","*","*","*">>
Ellipsis == <<"<ellipsis>">>

(***************************************************************************)
(* System-level redaction (server.js 79-149).                              *)
(***************************************************************************)
UrlStop == {"/", "?", "#"}

\* the position after the optional scheme and the "//" of
\* /^(?:https?:)?\/\/.../i, 0 when the string does not begin that way
AfterScheme(s) ==
  IF StartsAtCI(s, 1, <<"h","t","t","p","s",":","/","/">>) THEN 9
  ELSE IF StartsAtCI(s, 1, <<"h","t","t","p",":","/","/">>) THEN 8
  ELSE IF StartsAt(s, 1, <<"/","/">>) THEN 3
  ELSE 0

\* the capture of /needle([^\/?#]+)/i in s: the segment after the first
\* occurrence of needle that is followed by a segment character, <<>> when
\* there is none
SegmentAfter(s, needle) ==
  LET hits == {i \in 1..Len(s) : /\ StartsAtCI(s, i, needle)
                                 /\ At(s, i + Len(needle)) # ""
                                 /\ At(s, i + Len(needle)) \notin UrlStop}
  IN IF hits = {} THEN <<>>
     ELSE LET b == MinOf(hits) + Len(needle)
          IN SubSeq(s, b, RunEndNot(s, b, UrlStop))

\* host.endsWith(name): /name$/.test(host)
EndsWith(s, t) == Len(t) <= Len(s) /\ SubSeq(s, Len(s) - Len(t) + 1, Len(s)) = t

usernameFromAnyUrl(u) ==
  LET a == AfterScheme(u)
      hostEnd == RunEndNot(u, a, UrlStop)
      userEnd == RunEndNot(u, hostEnd + 2, UrlStop)
      matched == /\ a > 0
                 /\ hostEnd >= a
                 /\ At(u, hostEnd + 1) = "/"
                 /\ userEnd >= hostEnd + 2
      host == toLowerCase(SubSeq(u, a, hostEnd))
      seg == SubSeq(u, hostEnd + 2, userEnd)
      at == SegmentAfter(u, <<"y","o","u","t","u","b","e",".","c","o","m","/","@">>)
      ch == SegmentAfter(u, <<"y","o","u","t","u","b","e",".","c","o","m","/","c","h","a","n","n","e","l","/">>)
      tt == SegmentAfter(u, <<"t","i","k","t","o","k",".","c","o","m","/","@">>)
      user == IF EndsWith(host, <<"y","o","u","t","u","b","e",".","c","o","m">>)
              THEN (IF at # <<>> THEN at ELSE IF ch # <<>> THEN ch ELSE seg)
              ELSE IF EndsWith(host, <<"t","i","k","t","o","k",".","c","o","m">>)
              THEN (IF tt # <<>> THEN tt ELSE seg)
              ELSE seg
  IN IF ~matched THEN <<>>
     ELSE IF At(user, 1) = "@" THEN Tail(user) ELSE user

\* orig.match(/[A-Z]?[a-z]+|[0-9]+|[A-Z]+(?![a-z])/g): the length of the
\* match at position i, 0 when no alternative matches there
PartLen(s, i) ==
  IF At(s, i) \in Lowers THEN RunEnd(s, i, Lowers) - i + 1
  ELSE IF At(s, i) \in Uppers /\ At(s, i + 1) \in Lowers THEN RunEnd(s, i + 1, Lowers) - i + 1
  ELSE IF At(s, i) \in Digits THEN RunEnd(s, i, Digits) - i + 1
  ELSE IF At(s, i) \in Uppers
       THEN LET j == RunEnd(s, i, Uppers)
            IN IF At(s, j + 1) \in Lowers THEN j - i ELSE j - i + 1
  ELSE 0

RECURSIVE CamelParts(_, _)
CamelParts(s, i) ==
  IF i > Len(s) THEN <<>>
  ELSE LET n == PartLen(s, i)
       IN IF n > 0 THEN <<toLowerCase(SubSeq(s, i, i + n - 1))>> \o CamelParts(s, i + n)
          ELSE CamelParts(s, i + 1)

\* the members of a Set in insertion order: the first occurrence of each
InsertionOrder(ss) ==
  LET idx == SelectSeq([k \in 1..Len(ss) |-> k],
                       LAMBDA k : \A j \in 1..(k - 1) : ss[j] # ss[k])
  IN [k \in 1..Len(idx) |-> ss[idx[k]]]

SortNot(ss) == ss

\* Array.prototype.sort((a, b) => b.length - a.length): stable, longest first
SortLongestFirst(ss) ==
  LET maxL == IF ss = <<>> THEN 0 ELSE MaxOf({Len(ss[k]) : k \in 1..Len(ss)})
  IN Flat([d \in 1..maxL |-> SelectSeq(ss, LAMBDA t : Len(t) = maxL + 1 - d)])

SlideMin == 4
SlideMax == 8

redactionTokensBaseOnly(username) ==
  LET base == SelectSeq(toLowerCase(username), LAMBDA c : c \in Lowers \cup Digits)
  IN IF base = <<>> THEN <<>> ELSE <<base>>

redactionTokensFromUsername(username) ==
  LET orig == username
      base == SelectSeq(toLowerCase(orig), LAMBDA c : c \in Lowers \cup Digits)
      maxLen == IF Len(base) < SlideMax THEN Len(base) ELSE SlideMax
      \* L runs from maxLen down to 4, i from 0 upwards
      windows == Flat([d \in 1..(maxLen - SlideMin + 1) |->
                        LET L == maxLen + 1 - d
                        IN [i \in 1..(Len(base) - L + 1) |-> SubSeq(base, i, i + L - 1)]])
      parts == SelectSeq(CamelParts(orig, 1), LAMBDA p : Len(p) >= SlideMin)
  IN IF base = <<>> THEN <<>>
     ELSE SortLongestFirst(InsertionOrder(<<base>> \o windows \o parts))

\* /[A-Z0-9._%+-]+@[A-Z0-9.-]+\.[A-Z]{2,}/gi at position i
EmailLocal == Alnum \cup {".", "_", "%", "+", "-"}
EmailDomain == Alnum \cup {".", "-"}
EmailLen(s, i) ==
  IF At(s, i) \notin EmailLocal THEN 0
  ELSE LET p == RunEnd(s, i, EmailLocal)
           q == RunEnd(s, p + 2, EmailDomain)
           \* the greedy domain backtracks to its last dot that two letters follow
           dots == {d \in (p + 3)..q : /\ s[d] = "."
                                       /\ At(s, d + 1) \in Letters
                                       /\ At(s, d + 2) \in Letters}
       IN IF At(s, p + 1) # "@" \/ dots = {} THEN 0
          ELSE RunEnd(s, MaxOf(dots) + 1, Letters) - i + 1

\* /\b(?:https?:\/\/|www\.)\S+/gi at position i
UrlPrefixLen(s, i) ==
  IF StartsAtCI(s, i, <<"h","t","t","p","s",":","/","/">>) THEN 8
  ELSE IF StartsAtCI(s, i, <<"h","t","t","p",":","/","/">>) THEN 7
  ELSE IF StartsAtCI(s, i, <<"w","w","w",".">>) THEN 4
  ELSE 0
BareUrlLen(s, i) ==
  LET n == UrlPrefixLen(s, i)
  IN IF n = 0 \/ ~WordBoundary(s, i) THEN 0
     ELSE IF At(s, i + n) = "" \/ At(s, i + n) \in Ws THEN 0
     ELSE RunEndNot(s, i, Ws) - i + 1

\* new RegExp(toks.join('|'), 'gi') at position i: the first alternative, in
\* the order of toks, that matches there
TokenLen(toks, s, i) ==
  LET hits == {k \in 1..Len(toks) : StartsAtCI(s, i, toks[k])}
  IN IF hits = {} THEN 0 ELSE Len(toks[MinOf(hits)])

redactBylineSystem(text, sourceUrl) ==
  LET s1 == Subst(text, [i \in 1..Len(text) |-> EmailLen(text, i)], Mask, 1)
      s2 == Subst(s1, [i \in 1..Len(s1) |-> BareUrlLen(s1, i)], Mask, 1)
      user == usernameFromAnyUrl(sourceUrl)
      toks == redactionTokensFromUsername(user)
      s3 == IF user # <<>> /\ toks # <<>>
            THEN Subst(s2, [i \in 1..Len(s2) |-> TokenLen(toks, s2, i)], Mask, 1)
            ELSE s2
  IN trim(CollapseWs(s3))

(***************************************************************************)
(* Text helpers of the byline pipeline (server.js 58-77, 151-212).         *)
(***************************************************************************)
\* the position of the last character that is not whitespace, 0 when none
LastInk(s) ==
  LET nz == {i \in 1..Len(s) : s[i] \notin Ws}
  IN IF nz = {} THEN 0 ELSE MaxOf(nz)

\* the first position of the run of characters of class C that ends at e
\* (e + 1 when s[e] is not in C)
RunStart(s, e, C) ==
  LET bad == {k \in 1..e : s[k] \notin C}
  IN IF bad = {} THEN 1 ELSE MaxOf(bad) + 1

\* the smiley (?:;|:)-?\) that ends at position e: its first position, 0 when none
SmileyStart(s, e) ==
  IF At(s, e) # ")" THEN 0
  ELSE IF At(s, e - 1) \in {";", ":"} THEN e - 1
  ELSE IF At(s, e - 1) = "-" /\ At(s, e - 2) \in {";", ":"} THEN e - 2
  ELSE 0

TailPunct == {")", "]", "}", ".", ",", ";", ":", "!", "?"}
MaskRun == 4

\* /\*{4,}[^\S\r\n]*(?:[;:]-?\)|[)\]}.,;:!?]+)?\s*$/.test(s)
MaskedTailTest(s) ==
  LET e == LastInk(s)
      stars(k) == k >= MaskRun /\ \A j \in (k - MaskRun + 1)..k : s[j] = "*"
      sm == SmileyStart(s, e)
      pr == RunStart(s, e, TailPunct)
  IN /\ e > 0
     /\ \/ stars(e)
        \/ sm > 0 /\ stars(RunStart(s, sm - 1, HorizWs) - 1)
        \/ pr <= e /\ stars(RunStart(s, pr - 1, HorizWs) - 1)

\* replace(/\s*(?:;|:)-?\)\s*$/, '')
StripSmiley(s) ==
  LET sm == SmileyStart(s, LastInk(s))
  IN IF sm = 0 THEN s ELSE SubSeq(s, 1, RunStart(s, sm - 1, Ws) - 1)

\* replace(/\s*C+\s*$/, '') for a character class C, and with least >= 1 for
\* replace(/\s*C{least,}\s*$/, '')
StripRun(s, C, least) ==
  LET e == LastInk(s)
      b == RunStart(s, e, C)
  IN IF e = 0 \/ e - b + 1 < least THEN s ELSE SubSeq(s, 1, RunStart(s, b - 1, Ws) - 1)

\* one pass of the do-while body of stripMaskedTail
StripTailPass(s) ==
  StripRun(StripRun(StripRun(StripSmiley(s), {")", "]", "}"}, 1),
                    {",", ".", ";", ":", "!", "?"}, 1),
           {"*"}, MaskRun)

RECURSIVE StripTailLoop(_)
StripTailLoop(s) ==
  LET out == StripTailPass(s)
  IN IF Len(out) < Len(s) THEN StripTailLoop(out) ELSE out

stripMaskedTail(s) == trim(IF MaskedTailTest(s) THEN StripTailLoop(s) ELSE s)

JinaMarker == <<"m","a","r","k","d","o","w","n"," ","c","o","n","t","e","n","t",":">>

\* replace(/\r\n/g, '\n')
DropCr(s) ==
  LET keep == SelectSeq([i \in 1..Len(s) |-> <<s[i], At(s, i + 1)>>],
                        LAMBDA p : ~(p[1] = "\r" /\ p[2] = "\n"))
  IN [i \in 1..Len(keep) |-> keep[i][1]]

unwrapJina(md) ==
  LET t == DropCr(md)
      i == indexOf(toLowerCase(t), JinaMarker)
  IN IF i # 0 THEN SubSeq(t, i + Len(JinaMarker), Len(t)) ELSE t

\* /(?:\.{3}|...)\s*more/gi at position i ("..." or U+2026)
MoreLen(s, i) ==
  LET d == IF StartsAt(s, i, <<".",".",".">>) THEN 3
           ELSE IF At(s, i) = "<ellipsis>" THEN 1 ELSE 0
      w == RunEnd(s, i + d, Ws)
  IN IF d > 0 /\ StartsAtCI(s, w + 1, <<"m","o","r","e">>) THEN w + 4 - i + 1 ELSE 0

\* /\[[^\]]*?\]\([^)]+?\)/g at position i; with least = 1 the link text must
\* not be empty: /\[[^\]]+\]\([^)]+\)/g
MdLinkLen(s, i, least) ==
  IF At(s, i) # "[" THEN 0
  ELSE LET j == RunEndNot(s, i + 1, {"]"}) + 1
           k == RunEndNot(s, j + 2, {")"}) + 1
       IN IF /\ j - i - 1 >= least
             /\ At(s, j) = "]"
             /\ At(s, j + 1) = "("
             /\ k >= j + 3
             /\ At(s, k) = ")"
          THEN k - i + 1 ELSE 0

\* /\b(?:https?:\/\/|www\.)[^\s)]+/gi at position i
BareUrlNoParenLen(s, i) ==
  LET n == UrlPrefixLen(s, i)
      e == RunEndNot(s, i + n, Ws \cup {")"})
  IN IF n = 0 \/ ~WordBoundary(s, i) \/ e < i + n THEN 0 ELSE e - i + 1

\* /\band\s+\d+\s+more\s+links?\b/gi at position i
MoreLinksLen(s, i) ==
  LET w1 == RunEnd(s, i + 3, Ws)
      d  == RunEnd(s, w1 + 1, Digits)
      w2 == RunEnd(s, d + 1, Ws)
      w3 == RunEnd(s, w2 + 5, Ws)
      e  == w3 + 4
      es == IF LowerC(At(s, e + 1)) = "s" /\ WordBoundary(s, e + 2) THEN e + 1 ELSE e
  IN IF /\ WordBoundary(s, i)
        /\ StartsAtCI(s, i, <<"a","n","d">>)
        /\ w1 >= i + 3
        /\ d >= w1 + 1
        /\ w2 >= d + 1
        /\ StartsAtCI(s, w2 + 1, <<"m","o","r","e">>)
        /\ w3 >= w2 + 5
        /\ StartsAtCI(s, w3 + 1, <<"l","i","n","k">>)
        /\ WordBoundary(s, es + 1)
     THEN es - i + 1 ELSE 0

\* replace(/[ \t]+\n/g, '\n')
DropWsBeforeNl(s) ==
  LET keep == SelectSeq([i \in 1..Len(s) |-> <<s[i], At(s, RunEnd(s, i, HorizWs) + 1)>>],
                        LAMBDA p : ~(p[1] \in HorizWs /\ p[2] = "\n"))
  IN [i \in 1..Len(keep) |-> keep[i][1]]

\* replace(/\n{3,}/g, '\n\n')
SquashNl(s) ==
  LET keep == SelectSeq([i \in 1..Len(s) |-> <<s[i], At(s, i - 1), At(s, i - 2)>>],
                        LAMBDA p : ~(p[1] = "\n" /\ p[2] = "\n" /\ p[3] = "\n"))
  IN [i \in 1..Len(keep) |-> keep[i][1]]

stripLinksAndJunk(s) ==
  LET s1 == Subst(s, [i \in 1..Len(s) |-> MoreLen(s, i)], <<" ">>, 1)
      s2 == Subst(s1, [i \in 1..Len(s1) |-> MdLinkLen(s1, i, 0)], Mask, 1)
      s3 == Subst(s2, [i \in 1..Len(s2) |-> BareUrlNoParenLen(s2, i)], Mask, 1)
      s4 == [i \in 1..Len(s3) |-> IF s3[i] \in {"[", "]", "{", "}"} THEN " " ELSE s3[i]]
      s5 == Subst(s4, [i \in 1..Len(s4) |-> MoreLinksLen(s4, i)], <<" ">>, 1)
  IN trim(CollapseWs(SquashNl(DropWsBeforeNl(s5))))

HeadMinText == 30
HeadMax == 40
HeadMin == 20

dedupeHead(s) ==
  LET txt == trim(s)
      hits == {n \in HeadMin..HeadMax :
                 /\ 2 * n <= Len(txt)
                 /\ SubSeq(txt, 1, n) = SubSeq(txt, n + 1, 2 * n)}
  IN IF Len(txt) < HeadMinText \/ hits = {} THEN txt
     ELSE LET n == MaxOf(hits)
          IN trim(SubSeq(txt, 1, n) \o SubSeq(txt, 2 * n + 1, Len(txt)))

\* replace(/\s+\S*$/, ''): cut from the start of the last whitespace run
CutLastWord(s) ==
  LET ws == {i \in 1..Len(s) : s[i] \in Ws}
  IN IF ws = {} THEN s ELSE SubSeq(s, 1, RunStart(s, MaxOf(ws), Ws) - 1)

ClampMax == 200

clamp200(s) ==
  LET t == trim(s)
  IN IF Len(t) <= ClampMax THEN t
     ELSE CutLastWord(slice(t, 0, ClampMax)) \o Ellipsis

\* /([.!?]["']?\s+)/ at position i
SentenceSepLen(s, i) ==
  IF At(s, i) \notin {".", "!", "?"} THEN 0
  ELSE LET q == IF At(s, i + 1) \in {"\"", "'"} THEN 1 ELSE 0
           e == RunEnd(s, i + q + 1, Ws)
       IN IF e >= i + q + 1 THEN e - i + 1 ELSE 0

\* split(/([.!?]["']?\s+)/): text, separator, text, ..., text.  A separator
\* holds no [.!?] after its first character, so no match starts inside another.
SplitSentences(s) ==
  LET at == SelectSeq([i \in 1..Len(s) |-> i], LAMBDA i : SentenceSepLen(s, i) > 0)
      endOf(k) == IF k = 0 THEN 0 ELSE at[k] + SentenceSepLen(s, at[k]) - 1
  IN [j \in 1..(2 * Len(at) + 1) |->
        IF j % 2 = 0 THEN SubSeq(s, at[j \div 2], endOf(j \div 2))
        ELSE SubSeq(s, endOf((j - 1) \div 2) + 1,
                    IF (j + 1) \div 2 <= Len(at) THEN at[(j + 1) \div 2] - 1 ELSE Len(s))]

RECURSIVE KeepSentences(_, _, _)
\* the loop of dedupeSentences: out is the list of kept <<sentence, sep>>
KeepSentences(parts, i, out) ==
  IF i > Len(parts) THEN out
  ELSE LET sentence == trim(parts[i])
           sep == IF i + 1 <= Len(parts) THEN parts[i + 1] ELSE <<>>
       IN IF sentence = <<>> THEN KeepSentences(parts, i + 2, out)
          ELSE IF out # <<>> /\ toLowerCase(out[Len(out)][1]) = toLowerCase(sentence)
               THEN KeepSentences(parts, i + 2, out)
          ELSE KeepSentences(parts, i + 2, Append(out, <<sentence, sep>>))

dedupeSentences(s) ==
  LET parts == SplitSentences(s)
      out == KeepSentences(parts, 1, <<>>)
  IN IF Len(parts) <= 1 THEN trim(s)
     ELSE trim(Flat([k \in 1..Len(out) |-> out[k][1] \o out[k][2]]))

PhraseMin == 8
PhraseMax == 160

\* where the greedy (?:\s+\1)+ ends when P is the first L characters and the
\* repeats are scanned from position i; i - 1 when no repeat starts there
RECURSIVE RepeatsEnd(_, _, _)
RepeatsEnd(s, L, i) ==
  LET w == RunEnd(s, i, Ws)
  IN IF w >= i /\ StartsAtCI(s, w + 1, SubSeq(s, 1, L))
     THEN LET r == RepeatsEnd(s, L, w + L + 1) IN r
     ELSE i - 1

\* replace(/^(.{8,160}?)(?:\s+\1)+/i, '$1')
collapseLeadingPhrase(s) ==
  LET ok == {L \in PhraseMin..PhraseMax :
               /\ L <= Len(s)
               /\ \A k \in 1..L : s[k] \notin {"\n", "\r"}
               /\ RepeatsEnd(s, L, L + 1) > L}
  IN IF ok = {} THEN s
     ELSE LET L == MinOf(ok)
          IN SubSeq(s, 1, L) \o SubSeq(s, RepeatsEnd(s, L, L + 1) + 1, Len(s))

(***************************************************************************)
(* YouTube About extractor (server.js 217-340).                            *)
(***************************************************************************)
norm(s) == trim(s)

\* /^\s*-{3,}\s*$/.test(s)
HrMin == 3
isHr(s) ==
  LET t == trim(s)
  IN Len(t) >= HrMin /\ \A k \in 1..Len(t) : t[k] = "-"

\* the position after the optional (?:#{0,6}\s*|-{3,}\s*) prefix of a trimmed
\* line; dashes tells whether the dash alternative is part of the expression
HashMax == 6
AfterHeadingMark(t, dashes) ==
  LET h == RunEnd(t, 1, {"#"})
      d == RunEnd(t, 1, {"-"})
  IN IF h >= 1 THEN (IF h <= HashMax THEN RunEnd(t, h + 1, Ws) + 1 ELSE 0)
     ELSE IF dashes /\ d >= HrMin THEN RunEnd(t, d + 1, Ws) + 1
     ELSE 1

\* new RegExp(`^\\s*(?:#{0,6}\\s*|-{3,}\\s*)?${word}\\b`, 'i').test(norm(s))
startsWithWord(s, word) ==
  LET t == norm(s)
      a == AfterHeadingMark(t, TRUE)
  IN a > 0 /\ StartsAtCI(t, a, word) /\ WordBoundary(t, a + Len(word))

isHeadingLine(s, word) == startsWithWord(s, word)

\* /^\s*#{2,6}\s+\S/.test(norm(s))
HeadingMin == 2
isAnyHeading(s) ==
  LET t == norm(s)
      h == RunEnd(t, 1, {"#"})
      w == RunEnd(t, h + 1, Ws)
  IN h >= HeadingMin /\ h <= HashMax /\ w >= h + 1 /\ w < Len(t)

SECTION_WORDS == <<
  <<"L","i","n","k","s">>,
  <<"S","t","a","t","s">>,
  <<"D","e","t","a","i","l","s">>,
  <<"B","u","s","i","n","e","s","s">>,
  <<"C","o","n","t","a","c","t">>,
  <<"E","m","a","i","l">>,
  <<"L","o","c","a","t","i","o","n">>,
  <<"C","o","u","n","t","r","y">>,
  <<"S","h","o","p">>,
  <<"S","t","o","r","e">>,
  <<"J","o","i","n">>,
  <<"M","e","m","b","e","r","s","h","i","p">>,
  <<"C","r","e","a","t","o","r">> >>
isSectionBoundary(s) == \E k \in 1..Len(SECTION_WORDS) : startsWithWord(s, SECTION_WORDS[k])

\* /^\s*(more info|sign in|log in)\b/i.test(norm(s))
StopPhrases == <<<<"m","o","r","e"," ","i","n","f","o">>, <<"s","i","g","n"," ","i","n">>, <<"l","o","g"," ","i","n">>>>
isStopLine(s) ==
  LET t == norm(s)
  IN \E k \in 1..Len(StopPhrases) :
       StartsAtCI(t, 1, StopPhrases[k]) /\ WordBoundary(t, Len(StopPhrases[k]) + 1)

\* /^[A-Z][a-z]+(?:\s+[A-Z][a-z]+)*$/.test(t): capitalised words only
RECURSIVE CapitalisedWords(_, _)
CapitalisedWords(t, i) ==
  LET e == RunEnd(t, i + 1, Lowers)
      w == RunEnd(t, e + 1, Ws)
  IN /\ At(t, i) \in Uppers
     /\ e >= i + 1
     /\ \/ e = Len(t)
        \/ w >= e + 1 /\ CapitalisedWords(t, w + 1)

\* /^\d[\d.,]*\s*[kKmM]?\s*(subscribers|views|videos)\b/i.test(t)
CountWords == <<<<"s","u","b","s","c","r","i","b","e","r","s">>, <<"v","i","e","w","s">>, <<"v","i","d","e","o","s">>>>
isCountLine(t, words) ==
  LET d == RunEnd(t, 1, Digits \cup {".", ","})
      w1 == RunEnd(t, d + 1, Ws)
      k == IF LowerC(At(t, w1 + 1)) \in {"k", "m"} THEN w1 + 1 ELSE w1
      w2 == RunEnd(t, k + 1, Ws)
  IN /\ At(t, 1) \in Digits
     /\ \E j \in 1..Len(words) :
          StartsAtCI(t, w2 + 1, words[j]) /\ WordBoundary(t, w2 + 1 + Len(words[j]))

\* /^\s*(United States|United Kingdom|Canada|Australia|India)\s*$/i.test(t)
Countries == <<<<"U","n","i","t","e","d"," ","S","t","a","t","e","s">>,
  <<"U","n","i","t","e","d"," ","K","i","n","g","d","o","m">>,
  <<"C","a","n","a","d","a">>,
  <<"A","u","s","t","r","a","l","i","a">>,
  <<"I","n","d","i","a">>>>
isCountryLine(t) ==
  \E k \in 1..Len(Countries) : toLowerCase(trim(t)) = toLowerCase(Countries[k])

isMetaLine(s) ==
  LET t == norm(s)
  IN IF t = <<>> THEN FALSE
     ELSE IF StartsAtCI(t, 1, <<"s","h","a","r","e"," ","c","h","a","n","n","e","l">>) /\ WordBoundary(t, 14) THEN TRUE
     ELSE IF StartsAtCI(t, 1, <<"j","o","i","n","e","d">>) /\ WordBoundary(t, 7) THEN TRUE
     ELSE IF CapitalisedWords(t, 1) THEN FALSE
     ELSE IF isCountLine(t, CountWords) THEN TRUE
     ELSE IF isCountryLine(t) THEN TRUE
     ELSE FALSE

\* /^\s*\[[^\]]*\]\s*$/.test(s)
isBracketOnly(s) ==
  LET t == trim(s)
  IN Len(t) >= 2 /\ t[1] = "[" /\ RunEndNot(t, 2, {"]"}) = Len(t) - 1

DescriptionWord == <<"D","e","s","c","r","i","p","t","i","o","n">>
LinksWord == <<"L","i","n","k","s">>

\* /^\s*-{3,}\s*word\b/i.test(cur): the position after word, 0 when no match
AfterDashWord(cur, word) ==
  LET a == RunEnd(cur, 1, Ws) + 1
      d == RunEnd(cur, a, {"-"})
      b == RunEnd(cur, d + 1, Ws) + 1
  IN IF d - a + 1 >= HrMin /\ StartsAtCI(cur, b, word) /\ WordBoundary(cur, b + Len(word))
     THEN b + Len(word) ELSE 0

\* /^\s*(?:#{0,6}\s*)?Description\b/i on cur: the position after the word, 0
\* when no match
AfterHashWord(cur, word) ==
  LET a == RunEnd(cur, 1, Ws) + 1
      h == RunEnd(cur, a, {"#"})
      b == RunEnd(cur, h + 1, Ws) + 1
      c == IF h >= a THEN b ELSE a
  IN IF h - a + 1 <= HashMax /\ StartsAtCI(cur, c, word) /\ WordBoundary(cur, c + Len(word))
     THEN c + Len(word) ELSE 0

\* cur.replace(/^...Description\b[:\s-]*/i, '').trim() given the position
\* after the word (0: the expression does not match and cur is kept)
InlineAfter(cur, after) ==
  IF after = 0 THEN trim(cur)
  ELSE trim(SubSeq(cur, RunEnd(cur, after, Ws \cup {":", "-"}) + 1, Len(cur)))

\* the loop that finds the Description heading: <<startLine, inlineAfter>>
\* of the first line i (0-based) that one of its three tests accepts, and
\* <<-1, <<>>>> when no line does
FindStart(lines) ==
  LET n == Len(lines)
      sameLine(i) == AfterDashWord(lines[i], DescriptionWord) > 0
      hrThen(i) == isHr(lines[i]) /\ i + 1 <= n /\ isHeadingLine(lines[i + 1], DescriptionWord)
      plain(i) == isHeadingLine(lines[i], DescriptionWord)
      hits == {i \in 1..n : sameLine(i) \/ hrThen(i) \/ plain(i)}
  IN IF hits = {} THEN <<-1, <<>>>>
     ELSE LET i == MinOf(hits)
          IN IF sameLine(i)
             THEN <<i, InlineAfter(lines[i], AfterDashWord(lines[i], DescriptionWord))>>
             ELSE IF hrThen(i)
             THEN <<i + 1, InlineAfter(lines[i + 1], AfterHashWord(lines[i + 1], DescriptionWord))>>
             ELSE <<i, InlineAfter(lines[i], AfterHashWord(lines[i], DescriptionWord))>>

\* the loop that finds the end of the block: the 0-based index of the first
\* boundary line at or after startLine, lines.length when there is none
FindEnd(lines, startLine) ==
  LET ends == {j \in (startLine + 1)..Len(lines) :
                 \/ isSectionBoundary(lines[j])
                 \/ isStopLine(lines[j])
                 \/ isAnyHeading(lines[j])
                 \/ isMetaLine(lines[j])
                 \/ isHeadingLine(lines[j], LinksWord)
                 \/ AfterDashWord(lines[j], LinksWord) > 0}
  IN IF ends = {} THEN Len(lines) ELSE MinOf(ends) - 1

\* /\((?:https?:\/\/|www\.)[^)]+\)/gi at position i
ParenUrlLen(s, i) ==
  LET n == UrlPrefixLen(s, i + 1)
      k == RunEndNot(s, i + 1 + n, {")"}) + 1
  IN IF At(s, i) = "(" /\ n > 0 /\ k > i + 1 + n /\ At(s, k) = ")" THEN k - i + 1 ELSE 0

\* /\[\s*\]/g at position i
EmptyBracketLen(s, i) ==
  LET w == RunEnd(s, i + 1, Ws)
  IN IF At(s, i) = "[" /\ At(s, w + 1) = "]" THEN w + 1 - i + 1 ELSE 0

\* the artifact stripping of lines 320-328
stripArtifacts(body) ==
  LET s1 == Subst(body, [i \in 1..Len(body) |-> MoreLen(body, i)], <<" ">>, 1)
      s2 == Subst(s1, [i \in 1..Len(s1) |-> MdLinkLen(s1, i, 1)], <<" ">>, 1)
      s3 == Subst(s2, [i \in 1..Len(s2) |-> ParenUrlLen(s2, i)], <<" ">>, 1)
      s4 == Subst(s3, [i \in 1..Len(s3) |-> BareUrlLen(s3, i)], <<" ">>, 1)
      s5 == Subst(s4, [i \in 1..Len(s4) |-> EmptyBracketLen(s4, i)], <<" ">>, 1)
  IN trim(CollapseWs(DropWsBeforeNl(s5)))

\* the Description block joined to one line (lines 255-314)
youTubeBody(markdown) ==
  LET blockOf(lines, startLine, endLine) ==
        SelectSeq([k \in 1..(endLine - startLine) |-> norm(lines[startLine + k])],
                  LAMBDA l : /\ l # <<>>
                             /\ ~isStopLine(l)
                             /\ ~isMetaLine(l)
                             /\ ~isBracketOnly(l)
                             /\ ~isHr(l))
      joinedOf(inlineAfter, blockLines) ==
        trim(CollapseWs(JoinWith(IF inlineAfter # <<>> THEN <<inlineAfter>> \o blockLines
                                 ELSE blockLines, <<" ">>)))
      fromStart(lines, st) ==
        IF st[1] < 0 THEN <<>>
        ELSE joinedOf(st[2], blockOf(lines, st[1], FindEnd(lines, st[1])))
      ofLines(lines) == fromStart(lines, FindStart(lines))
  IN ofLines(SplitOn(DropCr(unwrapJina(markdown)), "\n"))

\* the polish of lines 330-339: redaction, then the dedupe passes, the masked
\* tail and the clamp
youTubePolish(body, sourceUrl) ==
  clamp200(stripMaskedTail(dedupeHead(dedupeSentences(
    collapseLeadingPhrase(redactBylineSystem(body, sourceUrl))))))

\* extractYouTubeMainByline without the test of line 315
extractYouTubeKeepsSymbols(markdown, sourceUrl) ==
  youTubePolish(stripArtifacts(youTubeBody(markdown)), sourceUrl)

extractYouTubeMainByline(markdown, sourceUrl) ==
  LET polished(body) ==
        IF \A k \in 1..Len(body) : body[k] \notin Alnum THEN <<>>
        ELSE youTubePolish(stripArtifacts(body), sourceUrl)
  IN polished(youTubeBody(markdown))

(***************************************************************************)
(* Twitch About extractor (server.js 343-393).                             *)
(***************************************************************************)
\* the line terminators at which ^ and $ of a multiline expression match
LineTerm == {"\n", "\r"}

\* md.match(/^\s*###\s+About\b[^\n]*$/im): the matched text, <<>> when the
\* expression matches nowhere (a match is never empty)
AboutWord == <<"A","b","o","u","t">>
HeadingMark == <<"#","#","#">>
AboutEnd(md, p) ==
  LET a == RunEnd(md, p, Ws) + 1
      b == RunEnd(md, a + Len(HeadingMark), Ws)
  IN IF /\ StartsAt(md, a, HeadingMark)
        /\ b >= a + Len(HeadingMark)
        /\ StartsAtCI(md, b + 1, AboutWord)
        /\ WordBoundary(md, b + 1 + Len(AboutWord))
     THEN RunEndNot(md, b + 1 + Len(AboutWord), {"\n"})
     ELSE 0
aboutMatch(md) ==
  LET starts == {p \in 1..Len(md) : (p = 1 \/ md[p - 1] \in LineTerm) /\ AboutEnd(md, p) > 0}
  IN IF starts = {} THEN <<>>
     ELSE SubSeq(md, MinOf(starts), AboutEnd(md, MinOf(starts)))

\* md.slice(startAt) with startAt = md.indexOf(aboutMatch[0]) + aboutMatch[0].length
aboutTail(md) ==
  LET a == aboutMatch(md)
  IN IF a = <<>> THEN md ELSE SubSeq(md, indexOf(md, a) + Len(a), Len(md))

\* followersRe = /(^|\n)\s*\d[\d.,]*\s*[kKmM]?\s*followers\b[^\S\r\n]*\n+/i
\* with the count starting at position q: the position after the match, 0
\* when there is no match with the count there
FollowersWord == <<"f","o","l","l","o","w","e","r","s">>
FollowersEnd(s, q) ==
  LET d == RunEnd(s, q, Digits \cup {".", ","})
      w1 == RunEnd(s, d + 1, Ws)
      k == IF LowerC(At(s, w1 + 1)) \in {"k", "m"} THEN w1 + 1 ELSE w1
      w2 == RunEnd(s, k + 1, Ws)
      f == w2 + Len(FollowersWord)
      h == RunEnd(s, f + 1, HorizWs)
      n == RunEnd(s, h + 1, {"\n"})
  IN IF /\ At(s, q) \in Digits
        /\ \E p \in 0..(q - 1) : /\ p = 0 \/ s[p] = "\n"
                                 /\ \A j \in (p + 1)..(q - 1) : s[j] \in Ws
        /\ StartsAtCI(s, w2 + 1, FollowersWord)
        /\ WordBoundary(s, f + 1)
        /\ n >= h + 1
     THEN n + 1 ELSE 0

\* followersRe.exec(tail): m.index + m[0].length as a 1-based position, 0
\* when exec returns null
followersPos(tail) ==
  LET hits == {q \in 1..Len(tail) : FollowersEnd(tail, q) > 0}
  IN IF hits = {} THEN 0 ELSE FollowersEnd(tail, MinOf(hits))

\* /\*\*\s*<middot>\s*\*\*/g at position i
StarDotLen(s, i) ==
  LET a == RunEnd(s, i + 2, Ws)
      b == RunEnd(s, a + 2, Ws)
  IN IF /\ StartsAt(s, i, <<"*","*">>)
        /\ At(s, a + 1) = "<middot>"
        /\ StartsAt(s, b + 1, <<"*","*">>)
     THEN b + 2 - i + 1 ELSE 0

\* the fallback of lines 354-363, taken when there is no followers line
twitchCleaned(tail) ==
  LET s1 == Subst(tail, [i \in 1..Len(tail) |-> StarDotLen(tail, i)], <<" ">>, 1)
      s2 == Subst(s1, [i \in 1..Len(s1) |-> MdLinkLen(s1, i, 1)], <<" ">>, 1)
  IN trim(CollapseWs(s2))
twitchFallback(tail, sourceUrl) ==
  clamp200(redactBylineSystem(twitchCleaned(tail), sourceUrl))

\* after.search(/\n{2,}###\s+/) as a 1-based position, 0 when not found
PanelMark == <<"[","!","[">>
endHeading(after) ==
  LET hits == {i \in 1..Len(after) :
                 LET e == RunEnd(after, i, {"\n"})
                 IN /\ e >= i + 1
                    /\ StartsAt(after, e + 1, HeadingMark)
                    /\ At(after, e + 1 + Len(HeadingMark)) \in Ws}
  IN IF hits = {} THEN 0 ELSE MinOf(hits)

\* after.slice(0, end): end is the first of the panel image, the next
\* heading and the end of the text
twitchBlock(after) ==
  LET endImg == indexOf(after, PanelMark)
      endH == endHeading(after)
      e1 == IF endImg # 0 /\ endImg - 1 < Len(after) THEN endImg - 1 ELSE Len(after)
      e2 == IF endH # 0 /\ endH - 1 < e1 THEN endH - 1 ELSE e1
  IN SubSeq(after, 1, e2)

cleanTwitchBlock(block) ==
  LET s1 == Subst(block, [i \in 1..Len(block) |-> StarDotLen(block, i)], <<" ">>, 1)
      s2 == Subst(s1, [i \in 1..Len(s1) |-> MdLinkLen(s1, i, 1)], <<" ">>, 1)
      s3 == Subst(s2, [i \in 1..Len(s2) |-> ParenUrlLen(s2, i)], <<" ">>, 1)
      s4 == Subst(s3, [i \in 1..Len(s3) |-> BareUrlLen(s3, i)], <<" ">>, 1)
  IN trim(DropWsBeforeNl(s4))

\* /^(?:[-<endash><bullet><middot>]+|\*+)$/.test(l)
Decorative(l) ==
  /\ l # <<>>
  /\ \/ \A k \in 1..Len(l) : l[k] \in {"-", "<endash>", "<bullet>", "<middot>"}
     \/ \A k \in 1..Len(l) : l[k] = "*"

\* block.split(/\n+/).map(trim).filter(Boolean).find(not decorative) || ''
firstMeaningfulLine(block) ==
  LET ls == SplitOn(block, "\n")
      ok == SelectSeq([k \in 1..Len(ls) |-> trim(ls[k])],
                      LAMBDA l : l # <<>> /\ ~Decorative(l))
  IN IF ok = <<>> THEN <<>> ELSE ok[1]

twitchPolish(byline, sourceUrl) ==
  clamp200(stripMaskedTail(dedupeHead(dedupeSentences(redactBylineSystem(byline, sourceUrl)))))

extractTwitchAboutByline(markdown, sourceUrl) ==
  LET md == unwrapJina(markdown)
      tail == aboutTail(md)
      pos == followersPos(tail)
      after == SubSeq(tail, pos, Len(tail))
  IN IF pos = 0 THEN twitchFallback(tail, sourceUrl)
     ELSE twitchPolish(firstMeaningfulLine(cleanTwitchBlock(twitchBlock(after))), sourceUrl)

(***************************************************************************)
(* Generic extractor (server.js 395-421) and the dispatch (423-428).       *)
(***************************************************************************)
NAV == {
  <<"h","o","m","e">>,
  <<"v","i","d","e","o","s">>,
  <<"s","h","o","r","t","s">>,
  <<"l","i","v","e">>,
  <<"p","l","a","y","l","i","s","t","s">>,
  <<"c","o","m","m","u","n","i","t","y">>,
  <<"c","h","a","n","n","e","l","s">>,
  <<"s","t","o","r","e">>,
  <<"m","e","m","b","e","r","s">>,
  <<"a","b","o","u","t">>,
  <<"d","e","s","c","r","i","p","t","i","o","n">>,
  <<"s","e","a","r","c","h">>,
  <<"s","u","b","s","c","r","i","p","t","i","o","n","s">>,
  <<"p","o","p","u","l","a","r">>,
  <<"s","t","a","t","s">>,
  <<"l","i","n","k">>,
  <<"l","i","n","k","s">>,
  <<"d","e","t","a","i","l">>,
  <<"d","e","t","a","i","l","s">>,
  <<"l","o","c","a","t","i","o","n">>,
  <<"j","o","i","n","e","d">>,
  <<"b","u","s","i","n","e","s","s">>,
  <<"e","m","a","i","l">>,
  <<"c","o","n","t","a","c","t">>,
  <<"c","r","e","a","t","o","r">>,
  <<"m","o","r","e">> }
BAD == {
  <<"c","o","o","k","i","e">>,
  <<"c","o","o","k","i","e","s">>,
  <<"c","o","n","s","e","n","t">>,
  <<"p","r","i","v","a","c","y">>,
  <<"p","o","l","i","c","y">>,
  <<"a","n","a","l","y","t","i","c","s">>,
  <<"p","a","r","t","n","e","r","s">>,
  <<"t","h","i","r","d","-","p","a","r","t","y">>,
  <<"t","h","i","r","d"," ","p","a","r","t","y">>,
  <<"m","a","r","k","e","t","i","n","g">>,
  <<"t","a","r","g","e","t","i","n","g">> }
VoiceWords == {
  <<"i">>,
  <<"m","y">>,
  <<"w","e">>,
  <<"c","h","a","n","n","e","l">>,
  <<"s","u","b","s","c","r","i","b","e">>,
  <<"v","i","d","e","o">>,
  <<"v","i","d","e","o","s">>,
  <<"s","t","r","e","a","m">>,
  <<"s","t","r","e","a","m","i","n","g">>,
  <<"g","a","m","i","n","g">>,
  <<"v","a","r","i","e","t","y">> }

\* /\b(w1|w2|...)\b/i.test(p) for the words of the set
ContainsWordCI(p, words) ==
  \E i \in 1..Len(p) : \E w \in words :
    WordBoundary(p, i) /\ StartsAtCI(p, i, w) /\ WordBoundary(p, i + Len(w))

\* the set S of positions in increasing order
Ascending(S) ==
  [k \in 1..Cardinality(S) |-> CHOOSE x \in S : Cardinality({y \in S : y < x}) = k - 1]

\* txt.split(/\n{2,}/) without the empty pieces, which the later
\* filter(Boolean) drops: the maximal stretches that hold no run of two or
\* more newlines
splitParas(txt) ==
  LET sep(i) == txt[i] = "\n" /\ (At(txt, i - 1) = "\n" \/ At(txt, i + 1) = "\n")
      starts == {i \in 1..Len(txt) : ~sep(i) /\ (i = 1 \/ sep(i - 1))}
      ends == {i \in 1..Len(txt) : ~sep(i) /\ (i = Len(txt) \/ sep(i + 1))}
      a == Ascending(starts)
      b == Ascending(ends)
  IN [k \in 1..Len(a) |-> SubSeq(txt, a[k], b[k])]

\* p.split('\n').map(trim).filter(Boolean).filter(l => !NAV.test(l)).join(' ')
paraLine(p) ==
  LET ls == SplitOn(p, "\n")
  IN JoinWith(SelectSeq([k \in 1..Len(ls) |-> trim(ls[k])],
                        LAMBDA l : l # <<>> /\ toLowerCase(l) \notin NAV), <<" ">>)

ScoreLenMin == 40
ScoreLenMax == 400
ScoreLen == 60
ScoreEnd == 10
ScoreVoice == 20
\* /[.!?]["']?$/.test(p)
EndsSentence(p) ==
  \/ At(p, Len(p)) \in {".", "!", "?"}
  \/ At(p, Len(p)) \in {"\"", "'"} /\ At(p, Len(p) - 1) \in {".", "!", "?"}
paraScore(p) ==
  (IF Len(p) >= ScoreLenMin /\ Len(p) <= ScoreLenMax THEN ScoreLen ELSE 0)
  + (IF EndsSentence(p) THEN ScoreEnd ELSE 0)
  + (IF ContainsWordCI(p, VoiceWords) THEN ScoreVoice ELSE 0)

\* the loop of lines 406-414: the first paragraph with the highest score
bestPara(paras) ==
  LET sc == [k \in 1..Len(paras) |-> paraScore(paras[k])]
      top == {k \in 1..Len(paras) : \A j \in 1..Len(paras) : sc[j] <= sc[k]}
  IN IF paras = <<>> THEN <<>> ELSE paras[MinOf(top)]

genericParas(markdown) ==
  LET ps == splitParas(unwrapJina(markdown))
  IN SelectSeq([k \in 1..Len(ps) |-> stripLinksAndJunk(paraLine(ps[k]))],
               LAMBDA p : p # <<>> /\ ~ContainsWordCI(p, BAD))

extractGenericByline(markdown) ==
  clamp200(stripMaskedTail(dedupeHead(dedupeSentences(
    redactBylineSystem(bestPara(genericParas(markdown)), <<>>)))))

YouTubeHost == <<"y","o","u","t","u","b","e",".","c","o","m">>
TwitchHost == <<"t","w","i","t","c","h",".","t","v">>
extractBylineFor(url, markdown) ==
  LET u == toLowerCase(url)
  IN IF indexOf(u, YouTubeHost) # 0 THEN extractYouTubeMainByline(markdown, url)
     ELSE IF indexOf(u, TwitchHost) # 0 THEN extractTwitchAboutByline(markdown, url)
     ELSE extractGenericByline(markdown)

(***************************************************************************)
(* GET /byline (server.js 441-531) and GET /twitch-about (1057-1117).      *)
(***************************************************************************)
\* /^(https?:)?\/\/(?:www\.)?(youtube\.com|twitch\.tv|kick\.com)\b/i.test(rawUrl)
KnownHosts == {<<"y","o","u","t","u","b","e",".","c","o","m">>, <<"t","w","i","t","c","h",".","t","v">>, <<"k","i","c","k",".","c","o","m">>}
SchemeLen(u) ==
  IF StartsAtCI(u, 1, <<"h","t","t","p","s",":">>) THEN 6
  ELSE IF StartsAtCI(u, 1, <<"h","t","t","p",":">>) THEN 5
  ELSE 0
isKnownHostAny(rawUrl) == TRUE
isKnownHost(rawUrl) ==
  LET a == SchemeLen(rawUrl) + 1
      b == IF StartsAtCI(rawUrl, a + 2, <<"w","w","w",".">>) THEN a + 6 ELSE a + 2
  IN /\ StartsAt(rawUrl, a, <<"/","/">>)
     /\ \E h \in KnownHosts : StartsAtCI(rawUrl, b, h) /\ WordBoundary(rawUrl, b + Len(h))

\* /youtube\.com/i.test(rawUrl)
isYT(rawUrl) == indexOf(toLowerCase(rawUrl), YouTubeHost) # 0

\* rawUrl.replace(/[?#].*$/, '').replace(/\/$/, '')
normalizeYouTube(rawUrl) ==
  LET cuts == {i \in 1..Len(rawUrl) :
                 /\ rawUrl[i] \in {"?", "#"}
                 /\ \A j \in (i + 1)..Len(rawUrl) : rawUrl[j] \notin LineTerm}
      s1 == IF cuts = {} THEN rawUrl ELSE SubSeq(rawUrl, 1, MinOf(cuts) - 1)
  IN IF At(s1, Len(s1)) = "/" THEN SubSeq(s1, 1, Len(s1) - 1) ELSE s1

\* rawUrl.replace(/\/about(?:$|[\/?#].*)/i, '')
AboutPath == <<"/","a","b","o","u","t">>
aboutBase(rawUrl) ==
  LET n == Len(AboutPath)
      hits == {i \in 1..Len(rawUrl) :
                 /\ StartsAtCI(rawUrl, i, AboutPath)
                 /\ i + n > Len(rawUrl) \/ rawUrl[i + n] \in {"/", "?", "#"}}
  IN IF hits = {} THEN rawUrl
     ELSE LET i == MinOf(hits)
              e == IF i + n > Len(rawUrl) THEN i + n - 1
                   ELSE RunEndNot(rawUrl, i + n + 1, LineTerm)
          IN SubSeq(rawUrl, 1, i - 1) \o SubSeq(rawUrl, e + 1, Len(rawUrl))

\* the candidate list of lines 462-466, with the main page as a second
\* candidate for YouTube
candidatesWithMain(rawUrl) ==
  IF isYT(rawUrl) THEN <<aboutBase(rawUrl) \o AboutPath, aboutBase(rawUrl)>> ELSE <<rawUrl>>
candidates(rawUrl) ==
  IF isYT(rawUrl) THEN <<aboutBase(rawUrl) \o AboutPath>> ELSE <<rawUrl>>

\* if (!r.ok) continue;
fetchAcceptedAlways(ok) == TRUE
fetchAccepted(ok) == ok

\* if (md.length > 400_000) md = md.slice(0, 400_000)
BodyCap == 400000
capBody(md) == IF Len(md) > BodyCap THEN SubSeq(md, 1, BodyCap) ELSE md

\* String(req.query.raw || '') === '1'
flagSet(q) == q = <<"1">>

\* the answer of lines 510-521 to an empty byline
NoByline == <<"n","o","-","b","y","l","i","n","e">>
emptyResponseUnavailable(debugFlag) == [status |-> 503, kind |-> "text", body |-> <<>>]
emptyResponse(debugFlag) ==
  IF debugFlag THEN [status |-> 200, kind |-> "json", body |-> NoByline]
  ELSE [status |-> 204, kind |-> "none", body |-> <<>>]

\* /(^|\/\/)(www\.)?twitch\.tv\//i.test(String(u))
TwitchSlash == <<"t","w","i","t","c","h",".","t","v","/">>
isTwitchUrl(u) ==
  \E i \in 1..Len(u) :
    /\ i = 1 \/ StartsAt(u, i - 2, <<"/","/">>)
    /\ \/ StartsAtCI(u, i, TwitchSlash)
       \/ StartsAtCI(u, i, <<"w","w","w",".">>) /\ StartsAtCI(u, i + 4, TwitchSlash)

(***************************************************************************)
(* The requests the model sends: URLs, query flags and mirror texts.       *)
(***************************************************************************)
YouTubeUrl == <<"h","t","t","p","s",":","/","/","w","w","w",".","y","o","u","t","u","b","e",".","c","o","m","/","@","g","a","m","e","r","1","2","3","/","a","b","o","u","t","?","x","=","1">>
YouTubeBareUrl == <<"H","T","T","P",":","/","/","Y","o","u","T","u","b","e",".","c","o","m","/","@","g","a","m","e","r","1","2","3","/">>
TwitchUrl == <<"h","t","t","p","s",":","/","/","t","w","i","t","c","h",".","t","v","/","g","a","m","e","r","1","2","3">>
KickUrl == <<"/","/","w","w","w",".","k","i","c","k",".","c","o","m","/","g","a","m","e","r","1","2","3">>
SupportedUrls == {YouTubeUrl, YouTubeBareUrl, TwitchUrl, KickUrl}
\* no u, a blank u, and hosts that are not YouTube, Twitch or Kick
UnsupportedUrls == {<<>>, <<" ", " ">>, <<"h","t","t","p","s",":","/","/","e","x","a","m","p","l","e",".","c","o","m","/","g","a","m","e","r","1","2","3">>, <<"f","t","p",":","/","/","t","w","i","t","c","h",".","t","v","/","g","a","m","e","r","1","2","3">>,
                    <<"h","t","t","p","s",":","/","/","y","o","u","t","u","b","e",".","c","o","m","m","u","n","i","t","y","/","@","g","a","m","e","r","1","2","3">>,
                    <<"h","t","t","p","s",":","/","/","e","x","a","m","p","l","e",".","c","o","m","/","?","u","=","/","/","k","i","c","k",".","c","o","m","/","g","a","m","e","r","1","2","3">>}
\* a host that begins with a supported name and goes on with further labels
LookalikeUrl == <<"h","t","t","p","s",":","/","/","y","o","u","t","u","b","e",".","c","o","m",".","e","v","i","l",".","e","x","a","m","p","l","e","/","@","g","a","m","e","r","1","2","3">>
\* a Kick URL whose query names another supported host
MentionUrl == <<"h","t","t","p","s",":","/","/","k","i","c","k",".","c","o","m","/","g","a","m","e","r","1","2","3","?","r","e","f","=","y","o","u","t","u","b","e",".","c","o","m">>
Urls == SupportedUrls \cup UnsupportedUrls \cup {LookalikeUrl, MentionUrl}
\* a query parameter that is absent or set to "1"
QueryFlags == {<<>>, <<"1">>}

\* a text of LongLen characters without whitespace and without a period
\* that dedupeHead could fold
LetterCycle == LowerSeq \o UpperSeq
LongLen == 203
LongWord == [k \in 1..LongLen |-> LetterCycle[((k - 1) % Len(LetterCycle)) + 1]]

Pieces == <<
  <<"D","e","s","c","r","i","p","t","i","o","n","\n">>,
  <<"#","#","#"," ","A","b","o","u","t","\n","1","2"," ","f","o","l","l","o","w","e","r","s","\n","\n">>,
  <<"I"," ","a","m"," ","G","a","m","e","r","1","2","3"," ","a","n","d"," ","I"," ","s","t","r","e","a","m","!","\n","L","i","n","k","s","\n","\n">> >>
MaxPieces == 2
\* texts of up to MaxPieces pieces
PieceTexts == {Flat([k \in 1..Len(f) |-> Pieces[f[k]]]) :
                 f \in UNION {[1..m -> 1..Len(Pieces)] : m \in 0..MaxPieces}}
\* the texts the mirror sends: a text of pieces, followed or not by the long
\* word
Bodies == {p \o tail : p \in PieceTexts, tail \in {<<>>, LongWord}}

(***************************************************************************)
(* State of one HTTP request at a time on /byline or /twitch-about.        *)
(***************************************************************************)
VARIABLES
  route,        \* "none", "byline" or "twitch-about": the handler that runs
  bpc,          \* where the handler stands: idle, fetching (await _fetch),
                \* fetched, reading (await r.text()), read, threw, done
  reqU,         \* req.query.u as it was sent
  rawUrl,       \* rawUrl after trim and normalisation
  rawFlag,
  debugFlag,
  cands,        \* candidates
  ci,           \* index in cands of the candidate of the fetch in flight
  usedUrl,
  rOk,          \* r.ok of the response in hand
  md,
  status,       \* HTTP status of the response, 0 while there is none
  kind,         \* "none", "text" or "json"
  body,         \* response body
  fetches,      \* _fetch calls of this request
  extracts,     \* extractBylineFor calls of this request
  byline,       \* what extractBylineFor returned
  fetchFailed,  \* a _fetch of this request rejected or was not ok
  faulted,      \* extractBylineFor threw
  clientGone    \* the client of the request closed its connection

\* State of one /tiktok-sse session (server.js 745-934).
VARIABLES
  trust,        \* req.query.trust === '1'
  force,        \* req.query.force === '1'
  closed,
  attempt,
  tiktok,       \* the activation whose connector tiktok refers to, 0 for null
  timers,       \* the waits of the pending setTimeout(() => connect('retry'), wait),
                \* in increasing order
  ncalls,       \* activations of connect() that went past its closed check
  nevents,      \* events the connectors of the session emitted
  act,          \* per activation: pc (unused, cookie, scrape, connecting, done),
                \* conn (none, open, released) its connector, retries the
                \* timers schedule() set for it
  written,      \* how often send() was called with each of the events Logged
  budget,       \* the activations and connector events the session is followed for
  lastScraped   \* scraped of the last room-scrape event written

\* One application of a function of server.js to one input.
VARIABLES
  fname,        \* the function applied, "none" before
  fargs,        \* its arguments
  fout,         \* what it returned
  fagain        \* what it returned when applied to fout

pureVars == <<fname, fargs, fout, fagain>>
sseVars == <<trust, force, closed, attempt, tiktok, timers, ncalls, nevents, act, written, budget,
            lastScraped>>
bylineVars == <<route, bpc, reqU, rawUrl, rawFlag, debugFlag, cands, ci, usedUrl, rOk, md,
                status, kind, body, fetches, extracts, byline, fetchFailed, faulted, clientGone>>
vars == <<bylineVars, sseVars, pureVars>>

\* no function applied yet
PureIdle ==
  /\ fname = "none"
  /\ fargs = <<>>
  /\ fout = <<>>
  /\ fagain = <<>>

BylineInit ==
  /\ route = "none"
  /\ bpc = "idle"
  /\ reqU = <<>>
  /\ rawUrl = <<>>
  /\ rawFlag = FALSE
  /\ debugFlag = FALSE
  /\ cands = <<>>
  /\ ci = 0
  /\ usedUrl = <<>>
  /\ rOk = FALSE
  /\ md = <<>>
  /\ status = 0
  /\ kind = "none"
  /\ body = <<>>
  /\ fetches = 0
  /\ extracts = 0
  /\ byline = <<>>
  /\ fetchFailed = FALSE
  /\ faulted = FALSE
  /\ clientGone = FALSE

\* res.status(s).type(...).send(b): the handler returns
Respond(s, k, b) ==
  /\ status' = s
  /\ kind' = k
  /\ body' = b
  /\ bpc' = "done"

\* GET /byline?u=..&raw=..&debug=.. up to the first await (lines 441-481)
BylineRequest(u, raw, debug) ==
  /\ bpc = "idle"
  /\ UNCHANGED <<sseVars, pureVars, clientGone>>
  /\ route' = "byline"
  /\ reqU' = u
  /\ rawFlag' = flagSet(raw)
  /\ debugFlag' = flagSet(debug)
  /\ UNCHANGED <<usedUrl, rOk, md, extracts, byline, fetchFailed, faulted>>
  /\ IF trim(u) = <<>>
     THEN /\ Respond(400, "text", <<"M","i","s","s","i","n","g"," ","u">>)
          /\ rawUrl' = trim(u)
          /\ UNCHANGED <<cands, ci, fetches>>
     ELSE IF ~isKnownHost(trim(u))
     THEN /\ Respond(400, "text", <<"U","n","s","u","p","p","o","r","t","e","d"," ","h","o","s","t">>)
          /\ rawUrl' = trim(u)
          /\ UNCHANGED <<cands, ci, fetches>>
     ELSE /\ rawUrl' = (IF isYT(trim(u)) THEN normalizeYouTube(trim(u)) ELSE trim(u))
          /\ cands' = candidates(rawUrl')
          /\ ci' = 1
          /\ fetches' = fetches + 1
          /\ bpc' = "fetching"
          /\ UNCHANGED <<status, kind, body>>

\* GET /twitch-about?u=.. up to the await (lines 1075-1094)
TwitchAboutRequest(u) ==
  /\ bpc = "idle"
  /\ UNCHANGED <<sseVars, pureVars, clientGone>>
  /\ route' = "twitch-about"
  /\ reqU' = u
  /\ rawUrl' = trim(u)
  /\ UNCHANGED <<rawFlag, debugFlag, cands, ci, usedUrl, rOk, md, extracts, byline,
                 fetchFailed, faulted>>
  /\ IF trim(u) = <<>> \/ ~isTwitchUrl(trim(u))
     THEN /\ Respond(400, "json", <<>>)
          /\ UNCHANGED fetches
     ELSE /\ fetches' = fetches + 1
          /\ bpc' = "fetching"
          /\ UNCHANGED <<status, kind, body>>

\* the mirror answers the fetch in flight: the promise of _fetch resolves
MirrorAnswers(ok) ==
  /\ bpc = "fetching"
  /\ UNCHANGED <<sseVars, pureVars, clientGone>>
  /\ bpc' = "fetched"
  /\ rOk' = ok
  /\ fetchFailed' = (fetchFailed \/ ~ok)
  /\ UNCHANGED <<route, reqU, rawUrl, rawFlag, debugFlag, cands, ci, usedUrl, md, status, kind,
                 body, fetches, extracts, byline, faulted>>

\* the fetch in flight fails (network error): the promise of _fetch rejects
MirrorFails ==
  /\ bpc = "fetching"
  /\ UNCHANGED <<sseVars, pureVars, clientGone>>
  /\ bpc' = "threw"
  /\ fetchFailed' = TRUE
  /\ UNCHANGED <<route, reqU, rawUrl, rawFlag, debugFlag, cands, ci, usedUrl, rOk, md, status,
                 kind, body, fetches, extracts, byline, faulted>>

\* /byline after await _fetch (lines 483-494): the next candidate or 502
\* when the response is not ok, r.text() when it is
BylineAfterFetch ==
  /\ route = "byline"
  /\ UNCHANGED <<sseVars, pureVars, clientGone>>
  /\ bpc = "fetched"
  /\ UNCHANGED <<route, reqU, rawUrl, rawFlag, debugFlag, cands, rOk, md, extracts, byline,
                 fetchFailed, faulted>>
  /\ IF fetchAccepted(rOk)
     THEN /\ usedUrl' = cands[ci]
          /\ bpc' = "reading"
          /\ UNCHANGED <<ci, fetches, status, kind, body>>
     ELSE IF ci < Len(cands)
     THEN /\ ci' = ci + 1
          /\ fetches' = fetches + 1
          /\ bpc' = "fetching"
          /\ UNCHANGED <<usedUrl, status, kind, body>>
     ELSE /\ Respond(502, "text", <<"F","e","t","c","h"," ","f","a","i","l","e","d">>)
          /\ UNCHANGED <<usedUrl, ci, fetches>>

\* /twitch-about after await _fetch (lines 1096-1100)
TwitchAboutAfterFetch ==
  /\ route = "twitch-about"
  /\ UNCHANGED <<sseVars, pureVars, clientGone>>
  /\ bpc = "fetched"
  /\ UNCHANGED <<route, reqU, rawUrl, rawFlag, debugFlag, cands, ci, usedUrl, rOk, md, fetches,
                 extracts, byline, fetchFailed, faulted>>
  /\ IF rOk
     THEN /\ bpc' = "reading"
          /\ UNCHANGED <<status, kind, body>>
     ELSE Respond(502, "json", <<>>)

\* the body of the mirror's response arrives: the promise of r.text() resolves
BodyArrives(text) ==
  /\ bpc = "reading"
  /\ UNCHANGED <<sseVars, pureVars, clientGone>>
  /\ bpc' = "read"
  /\ md' = text
  /\ UNCHANGED <<route, reqU, rawUrl, rawFlag, debugFlag, cands, ci, usedUrl, rOk, status, kind,
                 body, fetches, extracts, byline, fetchFailed, faulted>>

\* the body breaks off: the promise of r.text() rejects
BodyFails ==
  /\ bpc = "reading"
  /\ UNCHANGED <<sseVars, pureVars, clientGone>>
  /\ bpc' = "threw"
  /\ UNCHANGED <<route, reqU, rawUrl, rawFlag, debugFlag, cands, ci, usedUrl, rOk, md, status,
                 kind, body, fetches, extracts, byline, fetchFailed, faulted>>

\* /byline after await r.text() (lines 496-530); fault: the regular
\* expression engine gives up inside extractBylineFor (stack or memory), the
\* exception lands in the catch of the route
BylineAfterBody(fault) ==
  /\ route = "byline"
  /\ UNCHANGED <<sseVars, pureVars, clientGone>>
  /\ bpc = "read"
  /\ UNCHANGED <<route, reqU, rawUrl, rawFlag, debugFlag, cands, ci, usedUrl, rOk, fetches,
                 fetchFailed>>
  /\ md' = capBody(md)
  /\ IF rawFlag
     THEN /\ Respond(200, "text", md')
          /\ UNCHANGED <<extracts, byline, faulted>>
     ELSE /\ extracts' = extracts + 1
          /\ faulted' = fault
          /\ IF fault
             THEN /\ Respond(503, "text", <<"U","n","a","v","a","i","l","a","b","l","e">>)
                  /\ UNCHANGED byline
             ELSE /\ byline' = extractBylineFor(usedUrl, md')
                  /\ IF byline' = <<>>
                     THEN Respond(emptyResponse(debugFlag).status, emptyResponse(debugFlag).kind,
                                  emptyResponse(debugFlag).body)
                     ELSE Respond(200, "text", byline')

\* /twitch-about after await r.text() (lines 1100-1112)
TwitchAboutAfterBody ==
  /\ route = "twitch-about"
  /\ UNCHANGED <<sseVars, pureVars, clientGone>>
  /\ bpc = "read"
  /\ md' = capBody(unwrapJina(md))
  /\ Respond(200, "json", md')
  /\ UNCHANGED <<route, reqU, rawUrl, rawFlag, debugFlag, cands, ci, usedUrl, rOk, fetches,
                 extracts, byline, fetchFailed, faulted>>

\* the catch of the route (lines 526-530, 1113-1116; part_003 344-348) after a
\* rejected await
Catch ==
  /\ bpc = "threw"
  /\ UNCHANGED <<sseVars, pureVars, clientGone>>
  /\ IF route \in {"byline", "byline-part003"}
     THEN Respond(503, "text", <<"U","n","a","v","a","i","l","a","b","l","e">>)
     ELSE Respond(503, "json", <<>>)
  /\ UNCHANGED <<route, reqU, rawUrl, rawFlag, debugFlag, cands, ci, usedUrl, rOk, md, fetches,
                 extracts, byline, fetchFailed, faulted>>

\* the client closes its connection while the handler awaits _fetch; the
\* handlers register no listener for it and hand _fetch no signal (lines
\* 477-481, 1088-1094), so nothing of the request changes
ClientGone ==
  /\ bpc = "fetching"
  /\ ~clientGone
  /\ clientGone' = TRUE
  /\ UNCHANGED <<sseVars, pureVars>>
  /\ UNCHANGED <<route, bpc, reqU, rawUrl, rawFlag, debugFlag, cands, ci, usedUrl, rOk, md, status,
                 kind, body, fetches, extracts, byline, fetchFailed, faulted>>

\* the response is out; the server takes the next request
NextRequest ==
  /\ bpc = "done"
  /\ UNCHANGED <<sseVars, pureVars>>
  /\ clientGone' = FALSE
  /\ route' = "none"
  /\ bpc' = "idle"
  /\ reqU' = <<>>
  /\ rawUrl' = <<>>
  /\ rawFlag' = FALSE
  /\ debugFlag' = FALSE
  /\ cands' = <<>>
  /\ ci' = 0
  /\ usedUrl' = <<>>
  /\ rOk' = FALSE
  /\ md' = <<>>
  /\ status' = 0
  /\ kind' = "none"
  /\ body' = <<>>
  /\ fetches' = 0
  /\ extracts' = 0
  /\ byline' = <<>>
  /\ fetchFailed' = FALSE
  /\ faulted' = FALSE

(***************************************************************************)
(* GET /tiktok-sse (server.js 745-934, 1051): connect, schedule, cleanup.  *)
(***************************************************************************)
MaxCalls == 2
MaxEvents == 5
OverlapEvents == 2
\* a session is followed for MaxCalls activations and MaxEvents connector
\* events, or for one activation more and OverlapEvents events
Budgets == {[calls |-> MaxCalls, events |-> MaxEvents],
            [calls |-> MaxCalls + 1, events |-> OverlapEvents]}
Calls == 1..(MaxCalls + 1)
delays == <<2000, 5000, 10000, 20000, 30000, 60000>>
ConnectorEvents == {"disconnected", "error", "streamEnd"}
PageLive == {"null", "true", "false"}
FreshCall == [pc |-> "unused", conn |-> "none", retries |-> 0]

\* the calls of send(event, data) that are counted: <<event, data.stage or
\* data.state or data.reason>>; the other events leave written as it is
Logged == {<<"debug", "attempt">>, <<"room", "offline">>, <<"status", "offline">>,
           <<"status", "connected">>, <<"open", "ok">>,
           <<"retry", "no-live">>, <<"retry", "scrape">>}
NothingWritten == [t \in Logged |-> 0]
\* no room-scrape event yet
NoScrape == [roomId |-> FALSE, pageLive |-> "null", isLive |-> "null", from |-> "none"]
\* w after send() was called once with each of the events
Wrote(w, events) == [t \in Logged |-> IF t \in events THEN w[t] + 1 ELSE w[t]]

\* the handler up to connect('init') and that call up to its first await
SseStart(t, f, b) ==
  /\ trust = t
  /\ force = f
  /\ closed = FALSE
  /\ attempt = 0
  /\ tiktok = 0
  /\ timers = <<>>
  /\ ncalls = 1
  /\ nevents = 0
  /\ act = [c \in Calls |-> IF c = 1 THEN [FreshCall EXCEPT !.pc = "cookie"] ELSE FreshCall]
  /\ written = Wrote(NothingWritten, {<<"debug", "lib">>, <<"debug", "attempt">>})
  /\ budget = b
  /\ lastScraped = NoScrape

\* no session
SseIdle ==
  /\ trust = FALSE
  /\ force = FALSE
  /\ closed = TRUE
  /\ attempt = 0
  /\ tiktok = 0
  /\ timers = <<>>
  /\ ncalls = 0
  /\ nevents = 0
  /\ act = [c \in Calls |-> FreshCall]
  /\ written = NothingWritten
  /\ budget = [calls |-> 0, events |-> 0]
  /\ lastScraped = NoScrape

retryWaitFromOne(n) == delays[(IF n + 1 < Len(delays) - 1 THEN n + 1 ELSE Len(delays) - 1) + 1]

\* delays[Math.min(attempt, delays.length - 1)]
retryWait(n) == delays[(IF n < Len(delays) - 1 THEN n ELSE Len(delays) - 1) + 1]

\* the pending timers with one of wait w more
withTimer(ts, w) ==
  LET k == Cardinality({j \in 1..Len(ts) : ts[j] <= w})
  IN SubSeq(ts, 1, k) \o <<w>> \o SubSeq(ts, k + 1, Len(ts))

\* schedule(reason) without the test of closed
scheduleWhenClosed(c, a, w, reason) ==
  /\ attempt' = attempt + 1
  /\ timers' = withTimer(timers, retryWait(attempt))
  /\ act' = [a EXCEPT ![c].retries = @ + 1]
  /\ written' = Wrote(w, {<<"retry", reason>>})

\* schedule(reason) called for activation c, the activations being a and the
\* events written w: nothing when closed, else the next wait of the ladder,
\* the retry event and a timer
schedule(c, a, w, reason) ==
  IF closed
  THEN /\ act' = a
       /\ written' = w
       /\ UNCHANGED <<attempt, timers>>
  ELSE /\ attempt' = attempt + 1
       /\ timers' = withTimer(timers, retryWait(attempt))
       /\ act' = [a EXCEPT ![c].retries = @ + 1]
       /\ written' = Wrote(w, {<<"retry", reason>>})

\* tiktok.disconnect() on the connector tiktok refers to, if any
disconnected(a) == IF tiktok # 0 THEN [a EXCEPT ![tiktok].conn = "released"] ELSE a

\* what scrapeRoomIdFromWebProfile returns (lines 699-716): hasRoom, the pages
\* gave a room id; pageSaysLive, what the page state said; webcastLive, the
\* webcast API calls a candidate live; validate, the option
scrapeRoomIdFromWebProfile(hasRoom, pageSaysLive, webcastLive, validate) ==
  IF ~hasRoom THEN [roomId |-> FALSE, pageLive |-> "false", isLive |-> "false", from |-> "null"]
  ELSE IF ~validate
  THEN [roomId |-> TRUE, pageLive |-> (IF pageSaysLive = "null" THEN "true" ELSE pageSaysLive),
        isLive |-> (IF pageSaysLive = "null" THEN "true" ELSE pageSaysLive), from |-> "page-trust"]
  ELSE IF webcastLive
  THEN [roomId |-> TRUE, pageLive |-> pageSaysLive, isLive |-> "true", from |-> "validated"]
  ELSE [roomId |-> TRUE, pageLive |-> pageSaysLive, isLive |-> "false", from |-> "unvalidated"]

\* the gate without the live tests: a room id is enough
shouldConnectAnyRoom(scraped) == scraped.roomId

\* lines 857-859
shouldConnect(scraped) ==
  scraped.roomId /\ (trust \/ force \/ scraped.isLive = "true" \/ scraped.pageLive = "true")

\* a retry timer fires: connect('retry') up to its first await (lines 797-833)
RetryTimer(k) ==
  /\ k \in 1..Len(timers)
  /\ closed \/ ncalls < budget.calls
  /\ UNCHANGED <<bylineVars, pureVars>>
  /\ timers' = [j \in 1..(Len(timers) - 1) |-> IF j < k THEN timers[j] ELSE timers[j + 1]]
  /\ UNCHANGED <<trust, force, closed, attempt, nevents, budget, lastScraped>>
  /\ IF closed
     THEN UNCHANGED <<tiktok, ncalls, act, written>>
     ELSE /\ ncalls' = ncalls + 1
          /\ tiktok' = 0
          /\ act' = [disconnected(act) EXCEPT ![ncalls + 1].pc = "cookie"]
          /\ written' = Wrote(written, {<<"debug", "attempt">>})

\* await getTikTokCookieHeader settles (line 833; a rejection is swallowed);
\* connect goes on to await the scrape
CookieDone(c) ==
  /\ act[c].pc = "cookie"
  /\ UNCHANGED <<bylineVars, pureVars>>
  /\ act' = [act EXCEPT ![c].pc = "scrape"]
  /\ UNCHANGED <<trust, force, closed, attempt, tiktok, timers, ncalls, nevents, written, budget, lastScraped>>

\* await scrapeRoomIdFromWebProfile resolves (lines 854-926): a retry when
\* the gate says no, else the connector is made and connect() awaited
ScrapeDone(c, hasRoom, pageSaysLive, webcastLive) ==
  /\ act[c].pc = "scrape"
  /\ UNCHANGED <<bylineVars, pureVars>>
  /\ UNCHANGED <<trust, force, closed, ncalls, nevents, budget>>
  /\ lastScraped' = scrapeRoomIdFromWebProfile(hasRoom, pageSaysLive, webcastLive, ~trust)
  /\ IF shouldConnect(scrapeRoomIdFromWebProfile(hasRoom, pageSaysLive, webcastLive, ~trust))
     THEN /\ tiktok' = c
          /\ act' = [act EXCEPT ![c].pc = "connecting", ![c].conn = "open"]
          /\ written' = Wrote(written, {<<"debug", "room-scrape">>, <<"room", "live">>, <<"debug", "region">>})
          /\ UNCHANGED <<attempt, timers>>
     ELSE /\ schedule(c, [act EXCEPT ![c].pc = "done"],
                      Wrote(written, {<<"debug", "room-scrape">>, <<"room", "offline">>, <<"status", "offline">>}),
                      "no-live")
          /\ UNCHANGED tiktok

\* await scrapeRoomIdFromWebProfile rejects (lines 869-872)
ScrapeThrows(c) ==
  /\ act[c].pc = "scrape"
  /\ UNCHANGED <<bylineVars, pureVars>>
  /\ schedule(c, [act EXCEPT ![c].pc = "done"], Wrote(written, {<<"status", "error">>}), "scrape")
  /\ UNCHANGED <<trust, force, closed, tiktok, ncalls, nevents, budget, lastScraped>>

\* await tiktok.connect() resolves (lines 926-929)
ConnectResolves(c) ==
  /\ act[c].pc = "connecting"
  /\ UNCHANGED <<bylineVars, pureVars>>
  /\ attempt' = 0
  /\ act' = [act EXCEPT ![c].pc = "done"]
  /\ written' = Wrote(written, {<<"status", "connected">>, <<"open", "ok">>})
  /\ UNCHANGED <<trust, force, closed, tiktok, timers, ncalls, nevents, budget, lastScraped>>

\* await tiktok.connect() rejects (lines 930-933)
ConnectRejects(c) ==
  /\ act[c].pc = "connecting"
  /\ UNCHANGED <<bylineVars, pureVars>>
  /\ schedule(c, [act EXCEPT ![c].pc = "done"], Wrote(written, {<<"status", "error">>}), "connect:reject")
  /\ UNCHANGED <<trust, force, closed, tiktok, ncalls, nevents, budget, lastScraped>>

\* the connector of activation c emits disconnected, error or streamEnd:
\* onDisc, onErr, onEnd (lines 917-922); with disconnected the connection
\* is gone
Emit(c, ev) ==
  /\ act[c].conn # "none"
  /\ nevents < budget.events
  /\ UNCHANGED <<bylineVars, pureVars>>
  /\ nevents' = nevents + 1
  /\ schedule(c, [act EXCEPT ![c].conn = IF ev = "disconnected" THEN "released" ELSE @],
              Wrote(written, {<<"status", ev>>}), ev)
  /\ UNCHANGED <<trust, force, closed, tiktok, ncalls, budget, lastScraped>>

\* req.on('close'): closed = true; cleanup() (lines 784-788)
ClientClose ==
  /\ ~closed
  /\ ncalls > 0
  /\ UNCHANGED <<bylineVars, pureVars>>
  /\ closed' = TRUE
  /\ act' = disconnected(act)
  /\ UNCHANGED <<trust, force, attempt, tiktok, timers, ncalls, nevents, written, budget, lastScraped>>

NextSSE ==
  \/ \E k \in DOMAIN timers : RetryTimer(k)
  \/ \E c \in Calls : CookieDone(c)
  \/ \E c \in Calls, hasRoom \in BOOLEAN, pageSaysLive \in PageLive, webcastLive \in BOOLEAN :
       ScrapeDone(c, hasRoom, pageSaysLive, webcastLive)
  \/ \E c \in Calls : ScrapeThrows(c)
  \/ \E c \in Calls : ConnectResolves(c)
  \/ \E c \in Calls : ConnectRejects(c)
  \/ \E c \in Calls, ev \in ConnectorEvents : Emit(c, ev)
  \/ ClientClose

InitSSE ==
  BylineInit /\ PureIdle /\ \E t \in BOOLEAN, f \in BOOLEAN, b \in Budgets : SseStart(t, f, b)
SpecSSE == InitSSE /\ [][NextSSE]_vars

(***************************************************************************)
(* GET /tiktok-sse of src/unnamed/part_000 (lines 10-93): connect makes    *)
(* the connector at once and awaits only tiktok.connect().                 *)
(***************************************************************************)
\* the handler up to connect('init') and that call up to its await: the
\* status event of line 83, then the attempt event and the new connector
Part000Start(b) ==
  /\ trust = FALSE
  /\ force = FALSE
  /\ closed = FALSE
  /\ attempt = 0
  /\ tiktok = 1
  /\ timers = <<>>
  /\ ncalls = 1
  /\ nevents = 0
  /\ act = [c \in Calls |-> IF c = 1 THEN [FreshCall EXCEPT !.pc = "connecting", !.conn = "open"]
                            ELSE FreshCall]
  /\ written = Wrote(NothingWritten, {<<"status", "connected">>, <<"debug", "attempt">>})
  /\ budget = b
  /\ lastScraped = NoScrape

\* a retry timer fires: connect('retry') up to its await (lines 44-73)
Part000RetryTimer(k) ==
  /\ k \in 1..Len(timers)
  /\ closed \/ ncalls < budget.calls
  /\ UNCHANGED <<bylineVars, pureVars>>
  /\ timers' = [j \in 1..(Len(timers) - 1) |-> IF j < k THEN timers[j] ELSE timers[j + 1]]
  /\ UNCHANGED <<trust, force, closed, attempt, nevents, budget, lastScraped>>
  /\ IF closed
     THEN UNCHANGED <<tiktok, ncalls, act, written>>
     ELSE /\ ncalls' = ncalls + 1
          /\ tiktok' = ncalls + 1
          /\ act' = [disconnected(act) EXCEPT ![ncalls + 1].pc = "connecting",
                                              ![ncalls + 1].conn = "open"]
          /\ written' = Wrote(written, {<<"debug", "attempt">>})

\* await tiktok.connect() resolves (lines 73-75)
Part000ConnectResolves(c) ==
  /\ act[c].pc = "connecting"
  /\ UNCHANGED <<bylineVars, pureVars>>
  /\ attempt' = 0
  /\ act' = [act EXCEPT ![c].pc = "done"]
  /\ written' = Wrote(written, {<<"open", "ok">>})
  /\ UNCHANGED <<trust, force, closed, tiktok, timers, ncalls, nevents, budget, lastScraped>>

\* await tiktok.connect() rejects (lines 76-78)
Part000ConnectRejects(c) ==
  /\ act[c].pc = "connecting"
  /\ UNCHANGED <<bylineVars, pureVars>>
  /\ schedule(c, [act EXCEPT ![c].pc = "done"], written, "connect:reject")
  /\ UNCHANGED <<trust, force, closed, tiktok, ncalls, nevents, budget, lastScraped>>

\* onDisc, onErr, onEnd (lines 65-70) and req.on('close') (line 35) are
\* those of server.js
NextPart000 ==
  \/ \E k \in DOMAIN timers : Part000RetryTimer(k)
  \/ \E c \in Calls : Part000ConnectResolves(c)
  \/ \E c \in Calls : Part000ConnectRejects(c)
  \/ \E c \in Calls, ev \in ConnectorEvents : Emit(c, ev)
  \/ ClientClose

InitPart000 == BylineInit /\ PureIdle /\ \E b \in Budgets : Part000Start(b)
SpecPart000 == InitPart000 /\ [][NextPart000]_vars

Init == BylineInit /\ SseIdle /\ PureIdle

\* the steps of the handlers themselves, which the event loop runs once
\* they are due
HandlerStep ==
  \/ BylineAfterFetch
  \/ TwitchAboutAfterFetch
  \/ BylineAfterBody(TRUE)
  \/ BylineAfterBody(FALSE)
  \/ TwitchAboutAfterBody
  \/ Catch

Next ==
  \/ \E u \in Urls, raw \in QueryFlags, debug \in QueryFlags : BylineRequest(u, raw, debug)
  \/ \E u \in Urls : TwitchAboutRequest(u)
  \/ \E ok \in BOOLEAN : MirrorAnswers(ok)
  \/ MirrorFails
  \/ BylineAfterFetch
  \/ TwitchAboutAfterFetch
  \/ \E text \in Bodies : BodyArrives(text)
  \/ BodyFails
  \/ \E fault \in BOOLEAN : BylineAfterBody(fault)
  \/ TwitchAboutAfterBody
  \/ Catch
  \/ ClientGone
  \/ NextRequest

Spec == Init /\ [][Next]_vars

\* the handlers under a fair event loop, which runs every due step of a
\* handler; the mirror is not obliged to answer.  The texts are the short
\* ones: whether a request is answered does not depend on the text.
NextFair ==
  \/ \E u \in Urls, raw \in QueryFlags, debug \in QueryFlags : BylineRequest(u, raw, debug)
  \/ \E u \in Urls : TwitchAboutRequest(u)
  \/ \E ok \in BOOLEAN : MirrorAnswers(ok)
  \/ MirrorFails
  \/ BylineAfterFetch
  \/ TwitchAboutAfterFetch
  \/ \E text \in PieceTexts : BodyArrives(text)
  \/ BodyFails
  \/ \E fault \in BOOLEAN : BylineAfterBody(fault)
  \/ TwitchAboutAfterBody
  \/ Catch
  \/ NextRequest

FairSpec == Init /\ [][NextFair]_vars /\ WF_vars(HandlerStep)

(***************************************************************************)
(* GET /byline of unnamed/part_003 (lines 297-349): one fetch, no raw or   *)
(* debug mode.                                                             *)
(***************************************************************************)
\* up to the await of _fetch (lines 298-321)
Part003Request(u) ==
  /\ bpc = "idle"
  /\ UNCHANGED <<sseVars, pureVars, clientGone>>
  /\ route' = "byline-part003"
  /\ reqU' = u
  /\ UNCHANGED <<rawFlag, debugFlag, usedUrl, rOk, md, extracts, byline, fetchFailed, faulted>>
  /\ IF trim(u) = <<>>
     THEN /\ Respond(400, "text", <<"M","i","s","s","i","n","g"," ","u">>)
          /\ rawUrl' = trim(u)
          /\ UNCHANGED <<cands, ci, fetches>>
     ELSE IF ~isKnownHost(trim(u))
     THEN /\ Respond(400, "text", <<"U","n","s","u","p","p","o","r","t","e","d"," ","h","o","s","t">>)
          /\ rawUrl' = trim(u)
          /\ UNCHANGED <<cands, ci, fetches>>
     ELSE /\ rawUrl' = (IF isYT(trim(u)) THEN aboutBase(trim(u)) ELSE trim(u))
          /\ cands' = <<rawUrl'>>
          /\ ci' = 1
          /\ fetches' = fetches + 1
          /\ bpc' = "fetching"
          /\ UNCHANGED <<status, kind, body>>

\* after await _fetch (lines 323-329): 502 when the response is not ok,
\* r.text() when it is
Part003AfterFetch ==
  /\ route = "byline-part003"
  /\ bpc = "fetched"
  /\ UNCHANGED <<sseVars, pureVars, clientGone>>
  /\ UNCHANGED <<route, reqU, rawUrl, rawFlag, debugFlag, cands, ci, usedUrl, rOk, md, fetches,
                 extracts, byline, fetchFailed, faulted>>
  /\ IF rOk
     THEN /\ bpc' = "reading"
          /\ UNCHANGED <<status, kind, body>>
     ELSE Respond(502, "text", <<"F","e","t","c","h"," ","f","a","i","l","e","d">>)

\* after await r.text() (lines 329-348).  md is declared const: for a text
\* over the cap the assignment of line 332 throws a TypeError, which the
\* catch of the route answers.  Otherwise extractBylineFor of part_003 runs;
\* b is what it returns.
Part003AfterBody(b) ==
  /\ route = "byline-part003"
  /\ bpc = "read"
  /\ UNCHANGED <<sseVars, pureVars, clientGone>>
  /\ UNCHANGED <<route, reqU, rawUrl, rawFlag, debugFlag, cands, ci, usedUrl, rOk, md, fetches,
                 fetchFailed, faulted>>
  /\ IF Len(md) > BodyCap
     THEN /\ Respond(503, "text", <<"U","n","a","v","a","i","l","a","b","l","e">>)
          /\ UNCHANGED <<extracts, byline>>
     ELSE /\ extracts' = extracts + 1
          /\ byline' = b
          /\ IF b = <<>>
             THEN Respond(204, "none", <<>>)
             ELSE Respond(200, "text", b)

\* the texts the mirror sends, written as strings: n times the character x,
\* for lengths from nothing to just over the cap
RECURSIVE XText(_)
XText(n) ==
  IF n = 0 THEN ""
  ELSE IF n % 2 = 1 THEN XText(n - 1) \o "x"
  ELSE LET twice(h) == h \o h IN twice(XText(n \div 2))
Part003Bodies == {XText(n) : n \in {0, 1, 2, 40, BodyCap - 1, BodyCap, BodyCap + 1, BodyCap + 2}}
\* what extractBylineFor of part_003 returns: nothing, or a byline
Part003Bylines == {<<>>, <<"H","i","!">>}

NextPart003 ==
  \/ \E u \in Urls : Part003Request(u)
  \/ \E ok \in BOOLEAN : MirrorAnswers(ok)
  \/ MirrorFails
  \/ Part003AfterFetch
  \/ \E text \in Part003Bodies : BodyArrives(text)
  \/ BodyFails
  \/ \E b \in Part003Bylines : Part003AfterBody(b)
  \/ Catch
  \/ NextRequest

SpecPart003 == Init /\ [][NextPart003]_vars

(***************************************************************************)
(* The functions of the byline pipeline applied to one input each.         *)
(***************************************************************************)
\* new URL(u) for u with an http or https scheme, a plain host and a path
\* without dot segments: it parses, origin is scheme and host in lower case,
\* pathname runs up to the first ? or #.  For u without a scheme it throws.
\* normalizeTwitchAboutUrl (lines 1062-1071) on top of it.
normalizeTwitchAboutUrl(raw) ==
  LET u == trim(raw)
      n == SchemeLen(u)
      hostEnd == RunEndNot(u, n + 3, UrlStop)
      parses == n > 0 /\ StartsAt(u, n + 1, <<"/","/">>) /\ hostEnd >= n + 3
      origin == toLowerCase(SubSeq(u, 1, hostEnd))
      pathname == SubSeq(u, hostEnd + 1, RunEndNot(u, hostEnd + 1, {"?", "#"}))
      segs == SelectSeq(SplitOn(pathname, "/"), LAMBDA x : x # <<>>)
      first == IF segs = <<>> THEN <<>> ELSE segs[1]
      user == IF At(first, 1) = "@" THEN Tail(first) ELSE first
      \* u.replace(/\/+$/, '')
      noSlash == SubSeq(u, 1, RunStart(u, Len(u), {"/"}) - 1)
  IN IF parses
     THEN (IF user # <<>> THEN origin \o <<"/">> \o user \o AboutPath ELSE origin \o AboutPath)
     ELSE noSlash \o AboutPath

\* the texts of up to n of the pieces ps
TextsOf(ps, n) ==
  {Flat([k \in 1..Len(f) |-> ps[f[k]]]) : f \in UNION {[1..m -> 1..Len(ps)] : m \in 0..n}}
MaxParts == 3

\* texts around the handles gamer123 and aaaa1: fragments of the handles, a
\* link, an address
OverlapUrl == <<"h","t","t","p","s",":","/","/","t","w","i","t","c","h",".","t","v","/","a","a","a","a","1">>
RedactUrls == {TwitchUrl, OverlapUrl}
RedactPieces == <<<<"g","a","m","e","r">>, <<"G","a","m","e","r","1","2","3">>, <<"w","w","w",".","x",".","c","o">>, <<"a","@","b",".","c","o">>, <<"a","a","a","a","1">>, <<"a">>, <<" ">>>>
SentencePieces == <<<<"H","i">>, <<"h","i">>, <<"."," ">>, <<"!"," ">>, <<".">>, <<"H","i",".">>, <<"H","i","."," ">>, <<" ">>>>
HandlePieces == <<<<"g","a","m","e","r">>, <<"1","2","3">>, <<"M","a","x","i","m","i","l","i","a","n">>, <<"D","o","o","d">>, <<"X","Y">>, <<"_">>, <<"a">>>>
\* YouTube URLs as /byline takes them
YouTubeNormBases == {<<"h","t","t","p","s",":","/","/","w","w","w",".","y","o","u","t","u","b","e",".","c","o","m","/","@","g","a","m","e","r","1","2","3">>, <<"/","/","Y","o","u","T","u","b","e",".","c","o","m","/","c","/","G","a","m","e","r">>}
YouTubeNormPieces == <<<<"/">>, <<"/","a","b","o","u","t">>, <<"/","A","B","O","U","T">>, <<"/","v","i","d","e","o","s">>, <<"?","x","=","1">>, <<"#","f">>>>
YouTubeNormInputs ==
  {u \in {b \o t : b \in YouTubeNormBases, t \in TextsOf(YouTubeNormPieces, MaxParts)} :
     isKnownHost(trim(u)) /\ isYT(trim(u))}
\* Twitch URLs as /twitch-about takes them, with and without a scheme
TwitchNormBases == {<<"h","t","t","p","s",":","/","/","t","w","i","t","c","h",".","t","v","/">>, <<"t","w","i","t","c","h",".","t","v","/">>, <<"/","/","w","w","w",".","t","w","i","t","c","h",".","t","v","/">>, <<"H","T","T","P",":","/","/","W","W","W",".","T","w","i","t","c","h",".","T","V","/">>}
TwitchNormPieces == <<<<"/">>, <<"g","a","m","e","r","1","2","3">>, <<"@","G","a","m","e","r">>, <<"a","b","o","u","t">>, <<"?","x","=","1">>, <<"#","f">>>>
TwitchNormInputs ==
  {u \in {b \o t : b \in TwitchNormBases, t \in TextsOf(TwitchNormPieces, MaxParts)} :
     isTwitchUrl(trim(u))}
\* the About page of the channel SamStreams as the mirror gives it
SamUrl == <<"h","t","t","p","s",":","/","/","w","w","w",".","t","w","i","t","c","h",".","t","v","/","s","a","m","s","t","r","e","a","m","s">>
SamMarkdown == <<"#","#","#"," ","A","b","o","u","t"," ","S","a","m","S","t","r","e","a","m","s","\n","9",",","4","5","0"," ","f","o","l","l","o","w","e","r","s","\n","\n","I"," ","s","t","r","e","a","m"," ","v","a","r","i","e","t","y"," ","g","a","m","e","s"," ","o","n"," ","w","e","e","k","n","i","g","h","t","s",","," ","c","o","m","e"," ","s","a","y"," ","h","i","!","\n","\n","[","!","[","p","a","n","e","l","]">>
SamUrlAbout == <<"h","t","t","p","s",":","/","/","t","w","i","t","c","h",".","t","v","/","S","a","m","S","t","r","e","a","m","s","/","a","b","o","u","t">>
SamUrls == {SamUrl, SamUrlAbout, TwitchUrl, KickUrl}
SamMarkdowns == {SamMarkdown, <<"#","#","#"," ","A","b","o","u","t"," ","S","a","m","S","t","r","e","a","m","s","\n","9",",","4","5","0"," ","f","o","l","l","o","w","e","r","s","\n","\n","V","a","r","i","e","t","y"," ","g","a","m","e","s"," ","o","n"," ","w","e","e","k","n","i","g","h","t","s",","," ","c","o","m","e"," ","s","a","y"," ","h","i","!","\n","\n","[","!","[","p","a","n","e","l","]">>}

\* About pages of the channel gamer123 on YouTube as the mirror gives them:
\* no heading, a Description heading (plain, with inline text, after a rule),
\* then two lines
YouTubeHeadings == {<<>>, <<"D","e","s","c","r","i","p","t","i","o","n","\n">>, <<"#","#"," ","D","e","s","c","r","i","p","t","i","o","n",":"," ","H","e","l","l","o"," ","t","h","e","r","e","\n">>, <<"-","-","-","\n","D","e","s","c","r","i","p","t","i","o","n","\n">>}
YouTubeLines == {<<"H","e","l","l","o"," ","m","y"," ","c","h","a","n","n","e","l",".","\n">>, <<"U","n","i","t","e","d"," ","S","t","a","t","e","s","\n">>, <<"i","n","d","i","a","\n">>, <<"C","A","N","A","D","A","\n">>, <<"!","!","!","\n">>, <<"[","x","]","\n">>, <<"G","a","m","e","r","1","2","3"," ","r","o","c","k","s","."," ","g","a","m","e","r"," ","r","o","c","k","s",".","\n">>, <<"L","i","n","k","s","\n">>}
YouTubePages == {h \o a \o b : h \in YouTubeHeadings, a \in YouTubeLines, b \in YouTubeLines}
\* About pages of the channel gamer123 on Twitch: an About heading, a
\* follower-count line, paragraphs and a panel image in every order
TwitchLines == {<<>>, <<"#","#","#"," ","A","b","o","u","t"," ","G","a","m","e","r","1","2","3","\n">>, <<"1","2"," ","f","o","l","l","o","w","e","r","s","\n","\n">>, <<"G","a","m","e","r","1","2","3"," ","r","o","c","k","s","."," ","g","a","m","e","r"," ","r","o","c","k","s","."," ","H","i","!","\n","\n">>, <<"I"," ","s","t","r","e","a","m"," ","g","a","m","e","s",".","\n","\n">>}
TwitchPages == {a \o b \o c : a \in TwitchLines, b \in TwitchLines, c \in TwitchLines}
\* pages of a site with no extractor of its own: paragraphs
GenericParas == {<<>>, <<"M","a","i","l"," ","a","@","b",".","c","o"," ","t","o"," ","r","e","a","c","h"," ","m","e"," ","t","o","d","a","y","."," ","M","a","i","l"," ","c","@","d",".","c","o"," ","t","o"," ","r","e","a","c","h"," ","m","e"," ","t","o","d","a","y","."," ","B","y","e","!","\n","\n">>, <<"I"," ","l","o","v","e"," ","t","o"," ","s","t","r","e","a","m"," ","g","a","m","e","s"," ","w","i","t","h"," ","m","y"," ","f","r","i","e","n","d","s"," ","h","e","r","e","!","\n","\n">>, <<"H","o","m","e","\n","\n">>}
GenericPages == {a \o b : a \in GenericParas, b \in GenericParas}
\* texts that start with a head of 20 or of 25 characters, repeated up to
\* MaxParts times
HeadPieces == <<<<"a","b","c","d","e","f","g","h","i","j","k","l","m","n","o","p","q","r","s","t">>, <<"I"," ","s","t","r","e","a","m"," ","g","a","m","e","s"," ","e","v","e","r","y"," ","d","a","y"," ">>, <<" ","e","n","d">>, <<"x">>>>

\* the <<url, markdown>> pairs extractBylineFor is applied to
ExtractInputs ==
  (SamUrls \X SamMarkdowns) \cup ({YouTubeUrl} \X YouTubePages)
    \cup ({TwitchUrl} \X TwitchPages) \cup ({KickUrl} \X GenericPages)

ApplyRedact(text, url) ==
  /\ fname = "none"
  /\ fname' = "redactBylineSystem"
  /\ fargs' = <<text, url>>
  /\ fout' = redactBylineSystem(text, url)
  /\ fagain' = redactBylineSystem(fout', url)
  /\ UNCHANGED <<bylineVars, sseVars>>

ApplyDedupeSentences(text) ==
  /\ fname = "none"
  /\ fname' = "dedupeSentences"
  /\ fargs' = <<text>>
  /\ fout' = dedupeSentences(text)
  /\ fagain' = dedupeSentences(fout')
  /\ UNCHANGED <<bylineVars, sseVars>>

\* the normalisation of /byline for a YouTube URL (lines 452-466): the one
\* candidate it fetches
ApplyNormalizeYouTube(u) ==
  /\ fname = "none"
  /\ fname' = "normalizeYouTube"
  /\ fargs' = <<u>>
  /\ LET candidate(v) == candidates(normalizeYouTube(trim(v)))[1]
     IN /\ fout' = candidate(u)
        /\ fagain' = candidate(candidate(u))
  /\ UNCHANGED <<bylineVars, sseVars>>

ApplyNormalizeTwitch(u) ==
  /\ fname = "none"
  /\ fname' = "normalizeTwitchAboutUrl"
  /\ fargs' = <<u>>
  /\ fout' = normalizeTwitchAboutUrl(u)
  /\ fagain' = normalizeTwitchAboutUrl(fout')
  /\ UNCHANGED <<bylineVars, sseVars>>

ApplyTokens(handle) ==
  /\ fname = "none"
  /\ fname' = "redactionTokensFromUsername"
  /\ fargs' = <<handle>>
  /\ fout' = redactionTokensFromUsername(handle)
  /\ fagain' = <<>>
  /\ UNCHANGED <<bylineVars, sseVars>>

ApplyExtractBylineFor(url, markdown) ==
  /\ fname = "none"
  /\ fname' = "extractBylineFor"
  /\ fargs' = <<url, markdown>>
  /\ fout' = extractBylineFor(url, markdown)
  /\ fagain' = <<>>
  /\ UNCHANGED <<bylineVars, sseVars>>

ApplyDedupeHead(text) ==
  /\ fname = "none"
  /\ fname' = "dedupeHead"
  /\ fargs' = <<text>>
  /\ LET once(t) == dedupeHead(t)
     IN /\ fout' = once(text)
        /\ fagain' = once(once(text))
  /\ UNCHANGED <<bylineVars, sseVars>>

NextPure ==
  \/ \E text \in TextsOf(RedactPieces, MaxParts), url \in RedactUrls : ApplyRedact(text, url)
  \/ \E text \in TextsOf(SentencePieces, MaxParts) : ApplyDedupeSentences(text)
  \/ \E u \in YouTubeNormInputs : ApplyNormalizeYouTube(u)
  \/ \E u \in TwitchNormInputs : ApplyNormalizeTwitch(u)
  \/ \E handle \in TextsOf(HandlePieces, MaxParts) : ApplyTokens(handle)
  \/ \E pair \in ExtractInputs : ApplyExtractBylineFor(pair[1], pair[2])
  \/ \E text \in TextsOf(HeadPieces, MaxParts) : ApplyDedupeHead(text)

SpecPure == Init /\ [][NextPure]_vars

(***************************************************************************)
(* Claims.                                                                 *)
(***************************************************************************)
\* the tokens redactBylineSystem masks for the handle of a source URL
HandleTokens(url) == redactionTokensFromUsername(usernameFromAnyUrl(url))
\* t occurs in b, comparing case-insensitively
OccursCI(t, b) == \E i \in 1..Len(b) : StartsAtCI(b, i, t)
\* extractBylineFor ran for the request and returned
Extracted == route = "byline" /\ bpc = "done" /\ extracts = 1 /\ ~faulted

\* C1: the byline extractBylineFor returns for a YouTube, Twitch or Kick URL
\* holds no case-insensitive occurrence of a token of the URL's handle.
C1_NoHandleTokenInByline ==
  Extracted =>
    \A k \in 1..Len(HandleTokens(usedUrl)) : ~OccursCI(HandleTokens(usedUrl)[k], byline)

\* C2: every byline extractBylineFor returns is empty or at most ClampMax
\* characters long, the ellipsis counted, also when the first ClampMax
\* characters hold no whitespace.
C2_BylineWithinClamp == Extracted => Len(byline) <= ClampMax

\* C3: every attempt of a /tiktok-sse session that fails or ends sets at most
\* one retry timer, whatever its connector emits and however connect() ends.
C3_OneRetryPerAttempt == \A c \in Calls : act[c].retries <= 1

\* C4: once the client has closed and no connect() is under way any more (no
\* code is left that would call disconnect()), no connector of the session
\* is still connected.
C4_ConnectorsReleasedAfterClose ==
  (ncalls > 0 /\ closed /\ \A c \in Calls : act[c].pc \in {"unused", "done"})
    => \A c \in Calls : act[c].conn # "open"

C6_FetchFailureIsError ==
  (route = "byline" /\ fetchFailed)
    => extracts = 0 /\ (bpc = "done" => status \in {502, 503})
C6_Witness ==
  /\ route = "byline"
  /\ bpc = "done"
  /\ fetchFailed
  /\ status = 503
  /\ extracts = 0

C8_ExtractionFaultAsEmpty ==
  (route = "byline" /\ bpc = "done" /\ faulted)
    => status = emptyResponse(debugFlag).status /\ kind = emptyResponse(debugFlag).kind

\* C9: every /byline and /twitch-about request whose upstream fetch is in
\* flight gets a response in the end, even if the mirror never answers.
C9_RequestGetsResponse == (bpc = "fetching") ~> (bpc = "done")

\* C10: a /byline request issues at most one upstream fetch.
C10_AtMostOneFetch == route = "byline" => fetches <= 1
C10_Witness ==
  /\ route = "byline"
  /\ bpc = "done"
  /\ isYT(rawUrl)
  /\ fetchFailed
  /\ status = 502
  /\ fetches = 1

\* the wait the ladder 2000, 5000, 10000, 20000, 30000, 60000 gives the
\* retry that follows k earlier ones: its step k, its last step from then on
LadderWait(k) == IF k + 1 <= Len(delays) THEN delays[k + 1] ELSE delays[Len(delays)]

\* C11: in a /tiktok-sse session attempt counts the retries scheduled since
\* the last connect() that succeeded (it goes up by one with every retry
\* scheduled and changes otherwise only by going back to 0 when a connect()
\* resolves), and every retry scheduled waits delays[min(attempt, 5)]: never
\* more than 60000 ms, and 2000 ms for the first one after a success
C11_RetryLadder ==
  [][ /\ Len(timers') > Len(timers) =>
           /\ attempt' = attempt + 1
           /\ timers' = withTimer(timers, LadderWait(attempt))
           /\ LadderWait(attempt) <= 60000
           /\ attempt = 0 => LadderWait(attempt) = 2000
      /\ Len(timers') <= Len(timers) =>
           \/ attempt' = attempt
           \/ /\ attempt' = 0
              /\ \E c \in Calls : act[c].pc = "connecting" /\ act'[c].pc = "done"
    ]_vars

\* more retries than the ladder has steps were scheduled without a success
\* between them, the last two at its last step
C11_Witness ==
  /\ attempt > Len(delays)
  /\ Len(timers) >= 2
  /\ timers[Len(timers)] = delays[Len(delays)]
  /\ timers[Len(timers) - 1] = delays[Len(delays)]

\* the host of a URL: what stands between the // and the first /, ? or #,
\* in lower case and without a leading www.
HostOf(url) ==
  LET p == indexOf(url, <<"/","/">>)
      e == IF \E k \in (p + 2)..Len(url) : url[k] \in {"/", "?", "#"}
           THEN CHOOSE k \in (p + 2)..Len(url) :
                  /\ url[k] \in {"/", "?", "#"}
                  /\ \A j \in (p + 2)..(k - 1) : url[j] \notin {"/", "?", "#"}
           ELSE Len(url) + 1
      h == toLowerCase(SubSeq(url, p + 2, e - 1))
  IN IF p = 0 THEN <<>>
     ELSE IF StartsAt(h, 1, <<"w","w","w",".">>) THEN SubSeq(h, 5, Len(h))
     ELSE h

\* C12: /byline fetches only for a URL whose host is youtube.com, twitch.tv
\* or kick.com, with or without www.; a URL with any other host, one that
\* only begins with such a name included, is answered 400 Unsupported host.
C12_FetchOnlyKnownHost ==
  /\ (route = "byline" /\ fetches > 0) => HostOf(trim(reqU)) \in KnownHosts
  /\ (route = "byline" /\ bpc = "done" /\ trim(reqU) # <<>> /\ HostOf(trim(reqU)) \notin KnownHosts)
       => /\ status = 400
          /\ body = <<"U","n","s","u","p","p","o","r","t","e","d"," ","h","o","s","t">>

\* C13: in a /byline handler with the cap, a request whose fetched text was
\* read and that is not in raw mode ends with md cut to at most BodyCap
\* characters, that md handed to extractBylineFor, and the answer (200 or
\* 204) made from the extraction.
C13_CappedTextExtracted ==
  (route \in {"byline", "byline-part003"} /\ bpc = "done" /\ Len(md) > 0 /\ ~rawFlag /\ ~faulted)
    => Len(md) <= BodyCap /\ extracts = 1 /\ status \in {200, 204}

\* C14: redactBylineSystem is idempotent: applied to its own result, with
\* the same source URL, it returns that result.
C14_RedactIdempotent == fname = "redactBylineSystem" => fagain = fout

\* the sentences of a text: what stands between the ends of sentences, an end
\* being one of . ! ?, a quote or none, and whitespace or the end of the text
SentencesOf(r) ==
  LET parts == SplitSentences(r \o <<" ">>)
  IN SelectSeq([k \in 1..((Len(parts) + 1) \div 2) |-> trim(parts[2 * k - 1])],
               LAMBDA x : x # <<>>)

\* C15: dedupeSentences is idempotent, and no sentence of its result repeats,
\* comparing case-insensitively, the sentence before it.
C15_DedupeIdempotentNoRepeat ==
  fname = "dedupeSentences" =>
    /\ fagain = fout
    /\ \A k \in 1..(Len(SentencesOf(fout)) - 1) :
         toLowerCase(SentencesOf(fout)[k]) # toLowerCase(SentencesOf(fout)[k + 1])

\* C16: the YouTube normalisation of /byline and normalizeTwitchAboutUrl are
\* idempotent on the URLs their routes accept, Twitch URLs without a scheme
\* included.
C16_NormalizeIdempotent ==
  fname \in {"normalizeYouTube", "normalizeTwitchAboutUrl"} => fagain = fout

\* the lowercased alphanumeric base of a handle
BaseOf(handle) == SelectSeq(toLowerCase(handle), LAMBDA c : c \in Alnum)

\* C17: redactionTokensFromUsername returns, each once, the base, the
\* substrings of the base of length 4 to min(8, length of the base) and the
\* camelCase and number segments of the handle of length 4 or more, in lower
\* case, the longer ones first; nothing when the base is empty.
C17_TokensOfHandle ==
  fname = "redactionTokensFromUsername" =>
    LET base == BaseOf(fargs[1])
        top == IF Len(base) < 8 THEN Len(base) ELSE 8
        segments == CamelParts(fargs[1], 1)
        windows == UNION {{SubSeq(base, i, i + n - 1) : i \in 1..(Len(base) - n + 1)} : n \in 4..top}
        expected == {base} \cup windows
                    \cup {segments[k] : k \in {j \in 1..Len(segments) : Len(segments[j]) >= 4}}
    IN IF base = <<>> THEN fout = <<>>
       ELSE /\ {fout[k] : k \in 1..Len(fout)} = expected
            /\ \A j, k \in 1..Len(fout) : j < k => fout[j] # fout[k] /\ Len(fout[j]) >= Len(fout[k])

\* a handle with a base longer than 8 and a segment longer than 8
C17_Witness ==
  /\ fname = "redactionTokensFromUsername"
  /\ Len(BaseOf(fargs[1])) > 8
  /\ \E k \in 1..Len(fout) : Len(fout[k]) > 8 /\ fout[k] # BaseOf(fargs[1])
  /\ \E k \in 1..Len(fout) : Len(fout[k]) = 4

\* the positions of text whose characters redactBylineSystem leaves unmasked:
\* the three replacements of lines 133-146 applied to the positions
UnmaskedPositions(text, sourceUrl) ==
  LET blank == <<0, 0, 0, 0>>
      m1 == [i \in 1..Len(text) |-> EmailLen(text, i)]
      s1 == Subst(text, m1, Mask, 1)
      x1 == Subst([i \in 1..Len(text) |-> i], m1, blank, 1)
      m2 == [i \in 1..Len(s1) |-> BareUrlLen(s1, i)]
      s2 == Subst(s1, m2, Mask, 1)
      x2 == Subst(x1, m2, blank, 1)
      toks == HandleTokens(sourceUrl)
      x3 == IF toks # <<>>
            THEN Subst(x2, [i \in 1..Len(s2) |-> TokenLen(toks, s2, i)], blank, 1)
            ELSE x2
  IN {x3[k] : k \in 1..Len(x3)} \ {0}

\* C18: redactBylineSystem masks every character of every occurrence of the
\* squashed handle in the text; no part of an occurrence is left over.
C18_HandleOccurrenceMasked ==
  fname = "redactBylineSystem" =>
    LET base == BaseOf(usernameFromAnyUrl(fargs[2]))
    IN \A i \in 1..Len(fargs[1]) :
         (base # <<>> /\ StartsAtCI(fargs[1], i, base))
           => \A j \in i..(i + Len(base) - 1) : j \notin UnmaskedPositions(fargs[1], fargs[2])

\* C19: the extractor, and the YouTube normalisation of /byline, follow the
\* host of the URL alone: the YouTube ones for the host youtube.com, the
\* Twitch extractor for twitch.tv, the generic one for any other host,
\* whatever the path, the query and the fragment hold.
C19_ExtractorByHost ==
  /\ (route = "byline" /\ fetches > 0)
       => rawUrl = IF HostOf(trim(reqU)) = YouTubeHost THEN normalizeYouTube(trim(reqU))
                   ELSE trim(reqU)
  /\ Extracted
       => byline = IF HostOf(usedUrl) = YouTubeHost THEN extractYouTubeMainByline(md, usedUrl)
                   ELSE IF HostOf(usedUrl) = TwitchHost THEN extractTwitchAboutByline(md, usedUrl)
                   ELSE extractGenericByline(md)

SamSentence == <<"I"," ","s","t","r","e","a","m"," ","v","a","r","i","e","t","y"," ","g","a","m","e","s"," ","o","n"," ","w","e","e","k","n","i","g","h","t","s",","," ","c","o","m","e"," ","s","a","y"," ","h","i","!">>
SamSentenceMasked == <<"I"," ","*","*","*","*"," ","v","a","r","i","e","t","y"," ","g","a","m","e","s"," ","o","n"," ","w","e","e","k","n","i","g","h","t","s",","," ","c","o","m","e"," ","s","a","y"," ","h","i","!">>
\* extractBylineFor was applied to the About page of SamStreams with a
\* twitch.tv URL of that channel
SamExample == fname = "extractBylineFor" /\ fargs[1] \in {SamUrl, SamUrlAbout} /\ fargs[2] = SamMarkdown

\* C20: for the About page of SamStreams and a twitch.tv source URL with the
\* handle samstreams, extractBylineFor returns the sentence of the page as it
\* stands: I stream variety games on weeknights, come say hi!
C20_ExampleUnchanged == SamExample => fout = SamSentence

\* C20, amended: it returns the sentence with stream, which is a substring of
\* the handle samstreams, masked: I **** variety games on weeknights, come
\* say hi!
C20_ExampleMasked == SamExample => fout = SamSentenceMasked
C20_Witness == SamExample /\ fargs[1] = SamUrl /\ OccursCI(Mask, fout)

\* C21: once the client of a /byline request has closed while the fetch was
\* in flight, the fetch is not pending any more (the request is in its catch
\* or answered) and no extraction runs for the request.
C21_CloseAbortsFetch ==
  (route = "byline" /\ clientGone) => (bpc \in {"threw", "done"} /\ extracts = 0)


\* the application of extractYouTubeMainByline that extractBylineFor makes
\* for the channel page of gamer123
YouTubeApplied == fname = "extractBylineFor" /\ fargs[1] = YouTubeUrl
\* a line of the markdown starts, after marks, rules and blanks, with the
\* word Description
HasDescriptionLine(markdown) ==
  LET lines == SplitOn(markdown, "\n")
  IN \E k \in 1..Len(lines) :
       LET a == RunEnd(lines[k], 1, {"#", "-", " ", "\r"}) + 1
       IN StartsAtCI(lines[k], a, DescriptionWord) /\ WordBoundary(lines[k], a + Len(DescriptionWord))
NoAlnum(t) == \A k \in 1..Len(t) : t[k] \notin Alnum

\* C22: extractYouTubeMainByline returns the empty string when the markdown
\* has no Description heading, and when the block captured after the heading,
\* with stop, metadata, bracket-only and rule lines dropped, holds no
\* alphanumeric character.
C22_EmptyWithoutDescription ==
  YouTubeApplied =>
    ((~HasDescriptionLine(fargs[2]) \/ NoAlnum(youTubeBody(fargs[2]))) => fout = <<>>)
\* a page with a Description heading whose block is "!!!" gave the empty byline
C22_Witness ==
  /\ YouTubeApplied
  /\ HasDescriptionLine(fargs[2])
  /\ youTubeBody(fargs[2]) # <<>>
  /\ NoAlnum(youTubeBody(fargs[2]))
  /\ fout = <<>>

\* the text an extractor hands to its last stages: the Description block, the
\* first line after the follower count, the cleaned remaining text, the best
\* paragraph
CandidateOf(url, markdown) ==
  LET u == toLowerCase(url)
      tail == aboutTail(unwrapJina(markdown))
      pos == followersPos(tail)
  IN IF indexOf(u, YouTubeHost) # 0 THEN stripArtifacts(youTubeBody(markdown))
     ELSE IF indexOf(u, TwitchHost) # 0
     THEN (IF pos = 0 THEN twitchCleaned(tail)
           ELSE firstMeaningfulLine(cleanTwitchBlock(twitchBlock(SubSeq(tail, pos, Len(tail))))))
     ELSE bestPara(genericParas(markdown))
\* the URL the redaction of an extractor is given
RedactUrlOf(url) ==
  IF indexOf(toLowerCase(url), YouTubeHost) # 0 \/ indexOf(toLowerCase(url), TwitchHost) # 0
  THEN url ELSE <<>>
\* the last stages in the order deduplication, redaction, clamp
DedupeRedactClamp(candidate, url) ==
  clamp200(stripMaskedTail(redactBylineSystem(
    dedupeHead(dedupeSentences(collapseLeadingPhrase(candidate))), url)))

\* C23: a non-empty byline of extractBylineFor is its candidate text taken
\* through the deduplication passes first, the redaction next and the length
\* clamp last, on each of the four paths.
C23_DedupeBeforeRedact ==
  (fname = "extractBylineFor" /\ fout # <<>>) =>
    fout = DedupeRedactClamp(CandidateOf(fargs[1], fargs[2]), RedactUrlOf(fargs[1]))

\* the first n characters of r are repeated right after them, for an n in 20..40
HeadRepeated(r) ==
  \E n \in HeadMin..HeadMax : 2 * n <= Len(r) /\ SubSeq(r, 1, n) = SubSeq(r, n + 1, 2 * n)

\* C24: the result of dedupeHead is a fixpoint: a result of 30 or more
\* characters has no head of 20..40 characters repeated right after itself,
\* and dedupeHead of the result is the result, also for a head repeated three
\* times.
C24_DedupeHeadFixpoint ==
  fname = "dedupeHead" =>
    /\ fagain = fout
    /\ Len(fout) >= HeadMinText => ~HeadRepeated(fout)

\* the lines of a markdown that hold a country name of the list and nothing
\* else, in any capitalisation
CountryLines(markdown) ==
  LET lines == SplitOn(markdown, "\n")
  IN {trim(lines[k]) : k \in {j \in 1..Len(lines) :
        \E c \in 1..Len(Countries) : toLowerCase(trim(lines[j])) = toLowerCase(Countries[c])}}

\* C25: in extractYouTubeMainByline a line that is only a country name of the
\* list, in any capitalisation, is a metadata line, and its text is not in the
\* returned byline.
C25_CountryLineIsMetadata ==
  YouTubeApplied =>
    \A l \in CountryLines(fargs[2]) : isMetaLine(l) /\ ~OccursCI(l, fout)

\* the application of extractTwitchAboutByline that extractBylineFor makes
\* for the channel page of gamer123
TwitchApplied == fname = "extractBylineFor" /\ fargs[1] = TwitchUrl
\* the markdown has an About heading and a follower-count line after it
FollowersAfterAbout(markdown) ==
  /\ aboutMatch(unwrapJina(markdown)) # <<>>
  /\ followersPos(aboutTail(unwrapJina(markdown))) # 0

\* C26: extractTwitchAboutByline returns what its fallback path gives (the
\* cleaned remaining text, redacted and clamped) whenever the markdown has no
\* About heading or no follower-count line after the heading.
C26_FallbackWithoutAbout ==
  (TwitchApplied /\ ~FollowersAfterAbout(fargs[2])) =>
    fout = twitchFallback(aboutTail(unwrapJina(fargs[2])), fargs[1])

\* a step in which the connect() of a connector of the session resolves
ConnectSucceeds == \E c \in Calls : ConnectResolves(c) \/ Part000ConnectResolves(c)
\* how often the event was written in the step
WrittenInStep(event) == written'[event] - written[event]

\* C27: the status event with state connected and the open event are written
\* only when a connect() of the session has resolved: none is written before
\* the first step, a step in which a connect() resolves writes each of them
\* once, and no other step writes either.
C27_ConnectedOnlyAfterConnect ==
  /\ written[<<"status", "connected">>] = 0
  /\ written[<<"open", "ok">>] = 0
  /\ [][ /\ ConnectSucceeds =>
              WrittenInStep(<<"status", "connected">>) = 1 /\ WrittenInStep(<<"open", "ok">>) = 1
         /\ ~ConnectSucceeds =>
              WrittenInStep(<<"status", "connected">>) = 0 /\ WrittenInStep(<<"open", "ok">>) = 0
       ]_vars

\* the connectors of the session that were made and not disconnected
OpenConnectors == {c \in Calls : act[c].conn = "open"}

\* C28: a /tiktok-sse session holds at most one connector that has not been
\* disconnected, in every interleaving of retry timers, connector events and
\* the awaits of connect().
C28_OneOpenConnector == Cardinality(OpenConnectors) <= 1

\* the timers schedule() set in the session
TimersSet ==
  LET upTo[n \in 0..(MaxCalls + 1)] == IF n = 0 THEN 0 ELSE upTo[n - 1] + act[n].retries
  IN upTo[MaxCalls + 1]
\* the retry timers that fired when the client had closed: those set that
\* neither wait nor started an activation (the first one is connect('init'))
FiredAfterClose == TimersSet - Len(timers) - (ncalls - 1)

\* C29: once the client has closed, no step sets a timer, and a step in
\* which a retry timer fires changes nothing else: no attempt event is
\* written, no activation of connect() starts (no scrape, no connector) and
\* the variable tiktok stays.
C29_NothingAfterClose ==
  [][ closed =>
        /\ Len(timers') <= Len(timers)
        /\ Len(timers') < Len(timers) =>
             /\ written' = written
             /\ ncalls' = ncalls
             /\ act' = act
             /\ tiktok' = tiktok
    ]_vars
\* a retry timer has fired after the close
C29_Witness == closed /\ ncalls > 0 /\ FiredAfterClose >= 1

\* the gate of the attempt on what the scrape returned
GatePassed(scraped) ==
  scraped.roomId /\ (trust \/ force \/ scraped.isLive = "true" \/ scraped.pageLive = "true")
\* activation c leaves its await of the scrape in the step
ScrapeEnds(c) == act[c].pc = "scrape" /\ act'[c].pc # "scrape"
\* room{isLive:false} and status offline are written in the step
OfflineWritten ==
  WrittenInStep(<<"room", "offline">>) = 1 /\ WrittenInStep(<<"status", "offline">>) = 1
\* schedule(reason) sets a timer in the step
RetrySet(reason) == WrittenInStep(<<"retry", reason>>) = 1 /\ Len(timers') = Len(timers) + 1

\* C30 as stated: an attempt makes a connector only when its scrape returned
\* a room id and trust, force, isLive or pageLive holds; every other attempt
\* makes none, writes room{isLive:false} and status offline and sets a retry
\* with reason no-live.
C30_EveryOtherAttemptNoLive ==
  [][ \A c \in Calls : ScrapeEnds(c) =>
        IF act'[c].conn = "open" THEN GatePassed(lastScraped')
        ELSE OfflineWritten /\ RetrySet("no-live")
    ]_vars

\* C30: an attempt makes a connector only when its scrape returned a room id
\* and trust, force, isLive or pageLive holds.  An attempt whose scrape
\* returned anything else makes none, writes room{isLive:false} and status
\* offline and, unless the client has closed, sets a retry with reason
\* no-live; an attempt whose scrape threw makes none, writes neither event
\* and, unless the client has closed, sets a retry with reason scrape.
C30_ConnectorOnlyThroughGate ==
  [][ \A c \in Calls : ScrapeEnds(c) =>
        IF act'[c].conn = "open" THEN GatePassed(lastScraped')
        ELSE \/ /\ ScrapeThrows(c)
                /\ WrittenInStep(<<"room", "offline">>) = 0
                /\ IF closed THEN timers' = timers ELSE RetrySet("scrape")
             \/ /\ ~ScrapeThrows(c)
                /\ ~GatePassed(lastScraped')
                /\ OfflineWritten
                /\ IF closed THEN timers' = timers ELSE RetrySet("no-live")
    ]_vars
\* one attempt of the session found a room that is not live and was answered
\* with the offline events and a retry, another passed the gate and made a
\* connector
C30_Witness ==
  /\ written[<<"room", "offline">>] >= 1
  /\ written[<<"retry", "no-live">>] >= 1
  /\ \E c \in Calls : act[c].conn = "open" /\ tiktok = c
  /\ GatePassed(lastScraped)
====
